---- MODULE Spec2Model ----
(***************************************************************************)
(* A model of the fusion-and-analysis engine of nl_public_transport:       *)
(*   - NotificationManager (notifications.py): the notification gate,      *)
(*   - NLPublicTransportCoordinator._analyze_multi_leg_connections         *)
(*     (__init__.py): the connection analyzer,                             *)
(*   - GTFSStopCache.get_trips_between_stops (gtfs.py),                    *)
(*   - GTFSSchedule.get_schedule / _is_service_active (gtfs_schedule.py).  *)
(* Instants are whole minutes.  Each component has its own specification   *)
(* over the shared variables; a component's variables stay at their        *)
(* initial value in the other components' specifications.                  *)
(***************************************************************************)
EXTENDS Integers, Sequences, FiniteSets, TLC

VARIABLES
    clock,            \* dt_util.now(), in minutes
    notified_routes,  \* NotificationManager._notified_routes
    call,             \* arguments of the latest check_and_notify call
    bus,              \* event types fired on hass.bus by the latest call
    last_fired,       \* history: instant of the latest bus event per (key, kind)
    pre_notified,     \* history: _notified_routes when the latest call began
    pre_fired         \* history: last_fired when the latest call began

VARIABLES
    leg_data,           \* _analyze_multi_leg_connections: the legs, in order
    min_transfer_time,  \* its min_transfer_time argument, in minutes
    conn_i,             \* the pair (conn_i, conn_i + 1) the loop is about to analyze
    result,             \* its result dict
    conn_pc             \* "loop", "total" or "done"

VARIABLES
    stop_code_to_id,    \* GTFSStopCache._stop_code_to_id
    cache_trips,        \* GTFSStopCache._trips: trip_id -> stops sorted by sequence
    cache_loaded,       \* GTFSStopCache._loaded
    trips_query,        \* arguments of the latest get_trips_between_stops call
    matching_trips      \* its result

VARIABLES
    sched_stop_times,     \* GTFSSchedule._stop_times
    sched_calendar_dates, \* GTFSSchedule._calendar_dates
    sched_loaded,         \* GTFSSchedule._loaded
    sched_query,          \* arguments of the latest get_schedule call
    departures            \* its result

gateVars == <<clock, notified_routes, call, bus, last_fired, pre_notified, pre_fired>>

connVars == <<leg_data, min_transfer_time, conn_i, result, conn_pc>>

cacheVars == <<stop_code_to_id, cache_trips, cache_loaded, trips_query, matching_trips>>

schedVars == <<sched_stop_times, sched_calendar_dates, sched_loaded, sched_query,
               departures>>

\* The components above, and the components declared below them.
coreVars == <<gateVars, connVars, cacheVars, schedVars>>

VARIABLES
    cache_fault,      \* history: where GTFSStopCache.load failed, "none" if nowhere
    sched_fault       \* history: where GTFSSchedule.load failed, "none" if nowhere

archiveVars == <<cache_fault, sched_fault>>

VARIABLES
    delay_input,      \* the feed record whose delay is computed
    delay_result      \* who computed it ("none" before), and the minutes

delayVars == <<delay_input, delay_result>>

VARIABLES
    api_request,      \* arguments of get_journey and the configured credential
    api_response,     \* what the provider answers to the request
    api_now,          \* wall clock, seconds after 10:00:00
    api_calls,        \* get_journey calls made with the request
    api_outcome,      \* "none", "returned" or "raised": how the last call ended
    journey,          \* the value the last call returned
    prev_journey      \* history: the value the call before it returned

apiVars == <<api_request, api_response, api_now, api_calls, api_outcome, journey,
             prev_journey>>

VARIABLES
    poll_routes,      \* entry.data["routes"]
    poll_i,           \* position of the loop over the routes
    poll_data,        \* data: the routes (by position) whose journey is stored
    poll_result,      \* "idle", "running", "returned" or "UpdateFailed"
    poll_published    \* the routes whose data the host received

pollVars == <<poll_routes, poll_i, poll_data, poll_result, poll_published>>

VARIABLES
    ov_clock,         \* dt_util.now() in minutes, for the overlapping calls
    ov_notified,      \* _notified_routes shared by the overlapping calls
    ov_task,          \* per call: where it stands, and its arguments
    ov_fired          \* history: the events fired on the bus, with call and minute

overlapVars == <<ov_clock, ov_notified, ov_task, ov_fired>>

VARIABLES
    cfg_flow,         \* the flow that is open: "config", "options" or "closed"
    cfg_step,         \* step_id of the form or menu the flow shows
    cfg_errors,       \* errors["base"] of the form shown, or the abort reason
    cfg_routes,       \* self.routes of the open flow
    cfg_search_data,  \* self.search_data
    cfg_route_data,   \* self.route_data
    cfg_current_legs, \* self.current_legs
    cfg_entry         \* the config entry: whether it exists, and data["routes"]

configVars == <<cfg_flow, cfg_step, cfg_errors, cfg_routes, cfg_search_data,
                cfg_route_data, cfg_current_legs, cfg_entry>>

laterVars == <<archiveVars, delayVars, apiVars, pollVars, overlapVars, configVars>>

vars == <<coreVars, laterVars>>

\* The later components but one.
notArchive == <<delayVars, apiVars, pollVars, overlapVars, configVars>>

notDelay == <<archiveVars, apiVars, pollVars, overlapVars, configVars>>

notApi == <<archiveVars, delayVars, pollVars, overlapVars, configVars>>

notPoll == <<archiveVars, delayVars, apiVars, overlapVars, configVars>>

notOverlap == <<archiveVars, delayVars, apiVars, pollVars, configVars>>

notConfig == <<archiveVars, delayVars, apiVars, pollVars, overlapVars>>

----------------------------------------------------------------------------
(* Bounds of the model *)

MaxTime == 10        \* the clock stops advancing here

MaxLegs == 3         \* legs of a multi-leg route

MaxStopTimes == 4    \* rows of stop_times.txt read by GTFSStopCache

MaxDepartures == 3   \* rows of stop_times.txt read by GTFSSchedule

MaxCalendarRows == 2 \* rows of calendar_dates.txt

MaxPasses == 2       \* entries of a provider's departure payload

MaxApiClock == 60    \* the wall clock of the adapters stops advancing here

MaxApiCalls == 2     \* get_journey calls made with one request

MaxRoutes == 3       \* configured routes of one entry

MaxFlowRoutes == 2   \* routes a configuration flow holds

MaxTasks == 2        \* check_and_notify calls that may overlap

MaxOverlapTime == 2  \* the clock of the overlapping calls stops advancing here

TickSteps == {2, 8}  \* minutes the clock may advance between two calls

----------------------------------------------------------------------------
(* const.py *)

DOMAIN_NAME == "nl_public_transport"

EVENT_DELAY_DETECTED == DOMAIN_NAME \o "_delay_detected"
EVENT_DISRUPTION_DETECTED == DOMAIN_NAME \o "_disruption_detected"
EVENT_DEPARTURE_REMINDER == DOMAIN_NAME \o "_departure_reminder"
EVENT_REROUTE_SUGGESTED == DOMAIN_NAME \o "_reroute_suggested"
EVENT_MISSED_CONNECTION == DOMAIN_NAME \o "_missed_connection"

DEFAULT_NOTIFY_BEFORE == 30
DEFAULT_MIN_DELAY == 5

None == "None"

\* The function with the empty domain ({} in Python).
EmptyDict == [x \in {} |-> None]

----------------------------------------------------------------------------
(* __init__.py: NLPublicTransportCoordinator._analyze_multi_leg_connections *)
(* Instants of this component are seconds after 08:00:00Z.                  *)

DEFAULT_MIN_TRANSFER_TIME == 5

\* Values of a leg's departure_time / arrival_time: absent (None), a string
\* that datetime.fromisoformat rejects, or an ISO instant.
MissingInstant == [form |-> "missing", second |-> 0]

InvalidInstant == [form |-> "invalid", second |-> 0]

IsoInstant(sec) == [form |-> "iso", second |-> sec]

\* 08:05:00Z, 08:11:30Z, 08:12:00Z, 08:15:00Z
LegDepartures == {MissingInstant, IsoInstant(300), IsoInstant(690), IsoInstant(720),
                  IsoInstant(900)}

\* 08:10:00Z
LegArrivals == {InvalidInstant, IsoInstant(600)}

LegDelays == {0, 3}

Legs == [departure_time : LegDepartures, arrival_time : LegArrivals, delay : LegDelays]

LegLists == UNION { [1..n -> Legs] : n \in 2..MaxLegs }

\* int(x) for x = seconds / 60: truncation toward zero
int_minutes(seconds) ==
    IF seconds >= 0 THEN seconds \div 60 ELSE -((-seconds) \div 60)

\* Variant: a tight transfer sets the status whatever it was.
feasibility_status_unguarded(status, transfer_seconds, min_transfer) ==
    IF transfer_seconds < 0 THEN "missed"
    ELSE IF transfer_seconds < 60 * min_transfer THEN "tight"
         ELSE status

\* lines 222-228: the status after the feasibility check of a pair whose
\* transfer_time is seconds / 60
feasibility_status(status, transfer_seconds, min_transfer) ==
    IF transfer_seconds < 0 THEN "missed"
    ELSE IF transfer_seconds < 60 * min_transfer
         THEN (IF status = "ok" THEN "tight" ELSE status)
         ELSE status

\* lines 222-228: the warnings it appends
feasibility_warnings(transfer_seconds, min_transfer) ==
    IF transfer_seconds < 0 THEN <<"missed">>
    ELSE IF transfer_seconds < 60 * min_transfer THEN <<"tight">>
         ELSE <<>>

\* Variant: the effective transfer is compared whatever the delay is.
delay_at_risk_any_delay(current_delay, transfer_seconds, min_transfer) ==
    transfer_seconds - 60 * current_delay < 60 * min_transfer

\* lines 231-234: the delay of the current leg puts the transfer at risk
delay_at_risk(current_delay, transfer_seconds, min_transfer) ==
    current_delay > 0
        /\ transfer_seconds - 60 * current_delay < 60 * min_transfer

\* lines 230-236: the status after the delay check
delay_status(status, current_delay, transfer_seconds, min_transfer) ==
    IF delay_at_risk(current_delay, transfer_seconds, min_transfer)
    THEN "warning" ELSE status

\* One iteration of the loop of lines 198-240, for the pair (i, i + 1).
analyze_pair(legs, res, i, min_transfer) ==
    LET current_leg == legs[i]
        next_leg == legs[i + 1]
        current_arrival == current_leg.arrival_time
        next_departure == next_leg.departure_time
    IN  IF current_arrival.form = "missing" \/ next_departure.form = "missing"
        THEN [legs |-> legs,
              res |-> [res EXCEPT !.warnings = Append(@, "missing")]]
        ELSE IF current_arrival.form = "invalid" \/ next_departure.form = "invalid"
        THEN \* fromisoformat raises: the except clause of lines 238-240
             [legs |-> legs,
              res |-> [res EXCEPT !.warnings = Append(@, "error")]]
        ELSE
          LET transfer_seconds == next_departure.second - current_arrival.second
              st1 == feasibility_status(res.connection_status, transfer_seconds,
                                        min_transfer)
              w1 == res.warnings \o feasibility_warnings(transfer_seconds, min_transfer)
              risk == delay_at_risk(current_leg.delay, transfer_seconds, min_transfer)
              st2 == delay_status(st1, current_leg.delay, transfer_seconds,
                                  min_transfer)
              w2 == IF risk THEN Append(w1, "delay") ELSE w1
          IN  [legs |-> [legs EXCEPT ![i] =
                            ("transfer_time_to_next" :> int_minutes(transfer_seconds))
                                @@ current_leg],
               res |-> [res EXCEPT !.connection_status = st2, !.warnings = w2]]

\* lines 242-254: total_journey_time, None when a time is absent or unparseable
total_journey_time(legs) ==
    LET first_departure == legs[1].departure_time
        last_arrival == legs[Len(legs)].arrival_time
    IN  IF first_departure.form = "iso" /\ last_arrival.form = "iso"
        THEN [known |-> TRUE,
              minutes |-> int_minutes(last_arrival.second - first_departure.second)]
        ELSE [known |-> FALSE, minutes |-> 0]

\* lines 188-195
initial_result == [connection_status |-> "ok", warnings |-> <<>>,
                   total_journey_time |-> [known |-> FALSE, minutes |-> 0]]

AnalyzePair ==
    /\ conn_pc = "loop"
    /\ conn_i <= Len(leg_data) - 1
    /\ LET r == analyze_pair(leg_data, result, conn_i, min_transfer_time)
       IN  /\ leg_data' = r.legs
           /\ result' = r.res
    /\ conn_i' = conn_i + 1
    /\ UNCHANGED <<min_transfer_time, conn_pc, gateVars, cacheVars, schedVars, laterVars>>

LoopEnd ==
    /\ conn_pc = "loop"
    /\ conn_i > Len(leg_data) - 1
    /\ conn_pc' = "total"
    /\ UNCHANGED <<leg_data, min_transfer_time, conn_i, result, gateVars, cacheVars,
                   schedVars, laterVars>>

TotalTime ==
    /\ conn_pc = "total"
    /\ result' = [result EXCEPT !.total_journey_time = total_journey_time(leg_data)]
    /\ conn_pc' = "done"
    /\ UNCHANGED <<leg_data, min_transfer_time, conn_i, gateVars, cacheVars, schedVars, laterVars>>

ConnNext == AnalyzePair \/ LoopEnd \/ TotalTime

----------------------------------------------------------------------------
(* gtfs.py: GTFSStopCache *)

StopIds == {"s1", "s2"}

TripIds == {"t1", "t2"}

StopSequences == {1, 2, 3}

\* stops.txt: one row per stop, in this order; stop_code may be blank.
StopOrder == <<"s1", "s2">>

StopsFiles == [StopIds -> {"", "c1"}]

\* stop_times.txt: rows in file order.
StopTimeRows == [trip_id : TripIds, stop_id : StopIds, stop_sequence : StopSequences]

StopTimesFiles == UNION { [1..n -> StopTimeRows] : n \in 0..MaxStopTimes }

\* Stop codes a caller may ask for.
QueryCodes == {"c1", "s1", "s2"}

\* lines 61-66: the public code of a stops.txt row
stop_code_of(stop_id, stop_code_raw) ==
    IF stop_code_raw # "" /\ stop_code_raw # "None" THEN stop_code_raw ELSE stop_id

\* line 80: {data["stop_code"]: data["stop_id"] for data in stops.values()}; a
\* later stop with the same code replaces the earlier one.
RECURSIVE build_stop_code_to_id(_, _)
build_stop_code_to_id(stops_file, n) ==
    IF n = 0 THEN EmptyDict
    ELSE LET stop_id == StopOrder[n]
         IN  (stop_code_of(stop_id, stops_file[stop_id]) :> stop_id)
                 @@ build_stop_code_to_id(stops_file, n - 1)

\* list.sort(key=lambda x: x["sequence"]): stable insertion of x into a sorted list
RECURSIVE insert_by_sequence(_, _)
insert_by_sequence(sorted, x) ==
    IF sorted = <<>> THEN <<x>>
    ELSE IF sorted[Len(sorted)].sequence <= x.sequence THEN Append(sorted, x)
    ELSE Append(insert_by_sequence(SubSeq(sorted, 1, Len(sorted) - 1), x),
                sorted[Len(sorted)])

RECURSIVE sort_by_sequence(_)
sort_by_sequence(stops) ==
    IF stops = <<>> THEN <<>>
    ELSE insert_by_sequence(sort_by_sequence(SubSeq(stops, 1, Len(stops) - 1)),
                            stops[Len(stops)])

\* lines 95-106: the stops appended for one trip, in file order
RECURSIVE trip_stops(_, _, _)
trip_stops(rows, n, trip_id) ==
    IF n = 0 THEN <<>>
    ELSE IF rows[n].trip_id = trip_id
         THEN Append(trip_stops(rows, n - 1, trip_id),
                     [stop_id |-> rows[n].stop_id, sequence |-> rows[n].stop_sequence])
         ELSE trip_stops(rows, n - 1, trip_id)

\* lines 87-112: the trips dict built from stop_times.txt
build_trips(rows) ==
    [trip_id \in {rows[i].trip_id : i \in DOMAIN rows} |->
        sort_by_sequence(trip_stops(rows, Len(rows), trip_id))]

\* lines 174-181: the sequence of the last stop of the trip with this stop_id
seq_of(stops, stop_id) ==
    LET at == {i \in DOMAIN stops : stops[i].stop_id = stop_id}
    IN  IF at = {} THEN [found |-> FALSE, sequence |-> 0]
        ELSE [found |-> TRUE,
              sequence |-> stops[CHOOSE i \in at : \A j \in at : j <= i].sequence]

\* Variant: the comparison is not strict.
visits_in_order_or_same(origin_seq, dest_seq) == origin_seq <= dest_seq

\* line 184: origin_seq < dest_seq
visits_in_order(origin_seq, dest_seq) == origin_seq < dest_seq

\* line 166: self._stop_code_to_id.get(stop_code, stop_code)
to_stop_id(code_to_id, stop_code) ==
    IF stop_code \in DOMAIN code_to_id THEN code_to_id[stop_code] ELSE stop_code

\* get_trips_between_stops
get_trips_between_stops(trips, code_to_id, origin_stop_code, destination_stop_code) ==
    IF DOMAIN trips = {} THEN {}
    ELSE
      LET origin_stop_id == to_stop_id(code_to_id, origin_stop_code)
          destination_stop_id == to_stop_id(code_to_id, destination_stop_code)
      IN  { trip_id \in DOMAIN trips :
              LET origin_seq == seq_of(trips[trip_id], origin_stop_id)
                  dest_seq == seq_of(trips[trip_id], destination_stop_id)
              IN  /\ origin_seq.found
                  /\ dest_seq.found
                  /\ visits_in_order(origin_seq.sequence, dest_seq.sequence) }

NoQuery == [made |-> FALSE]

\* load(), the archive holding these stops.txt and stop_times.txt
Load ==
    /\ ~cache_loaded
    /\ \E stops_file \in StopsFiles : \E rows \in StopTimesFiles :
          /\ stop_code_to_id' = build_stop_code_to_id(stops_file, Len(StopOrder))
          /\ cache_trips' = build_trips(rows)
    /\ cache_loaded' = TRUE
    /\ UNCHANGED <<trips_query, matching_trips, gateVars, connVars, schedVars, laterVars>>

GetTripsBetweenStops ==
    /\ cache_loaded
    /\ ~trips_query.made
    /\ \E origin \in QueryCodes : \E destination \in QueryCodes :
          /\ trips_query' = [made |-> TRUE, origin |-> origin, destination |-> destination]
          /\ matching_trips' =
                 get_trips_between_stops(cache_trips, stop_code_to_id, origin, destination)
    /\ UNCHANGED <<stop_code_to_id, cache_trips, cache_loaded, gateVars, connVars,
                   schedVars, laterVars>>

\* The latest get_trips_between_stops call returns to its caller.
CacheReturn ==
    /\ trips_query.made
    /\ trips_query' = NoQuery
    /\ matching_trips' = {}
    /\ UNCHANGED <<stop_code_to_id, cache_trips, cache_loaded, gateVars, connVars,
                   schedVars, laterVars>>

CacheNext == Load \/ GetTripsBetweenStops \/ CacheReturn

----------------------------------------------------------------------------
(* gtfs_schedule.py: GTFSSchedule *)
(* A string is the tuple of its characters; a digit is its number, so that   *)
(* strings compare as Python compares them.                                   *)

\* "08:00:00" and "09:00:00", written by their hour digits
DepartureTimes == {<<0, 8>>, <<0, 9>>}

\* "00:00:00" (the default) and "09:00:00"
StartTimes == {<<0, 0>>, <<0, 9>>}

\* "08:00:00" and "23:59:59" (the default)
EndTimes == {<<0, 8>>, <<2, 3>>}

\* trips.txt: t3 has a blank service_id
sched_trips ==
    [t1 |-> [route_id |-> "r1", service_id |-> "sv1"],
     t2 |-> [route_id |-> "r2", service_id |-> "sv2"],
     t3 |-> [route_id |-> "r1", service_id |-> ""]]

\* routes.txt: route_short_name "10" and "2"
sched_routes ==
    [r1 |-> [route_short_name |-> <<1, 0>>],
     r2 |-> [route_short_name |-> <<2>>]]

\* line_filter "" (the default) and "1"
LineFilters == {<<>>, <<1>>}

Limits == {1, 2}

\* target_date: days of January 2024
TargetDates == {1, 2}

\* check_date.strftime("%Y%m%d")
strftime_Ymd(check_date) == IF check_date = 1 THEN "20240101" ELSE "20240102"

\* stop_times.txt: the rows of stop s1, in file order
ScheduleRows == [trip_id : {"t1", "t2", "t3"}, departure_time : DepartureTimes]

ScheduleFiles == UNION { [1..n -> ScheduleRows] : n \in 0..MaxDepartures }

\* calendar_dates.txt; exception_type "1" = added, "2" = removed.  The file
\* has rows for 1 January only, so no service has an entry for 2 January.
CalendarRows == [service_id : {"sv1", "sv2"}, date : {"20240101"},
                 exception_type : {"1", "2"}]

CalendarFiles == UNION { [1..n -> CalendarRows] : n \in 0..MaxCalendarRows }

\* Python's str <= str: lexicographic, a proper prefix is smaller
RECURSIVE str_leq(_, _)
str_leq(a, b) ==
    IF a = <<>> THEN TRUE
    ELSE IF b = <<>> THEN FALSE
    ELSE IF Head(a) < Head(b) THEN TRUE
    ELSE IF Head(a) > Head(b) THEN FALSE
    ELSE str_leq(Tail(a), Tail(b))

\* Python's `sub in text` for strings
str_in(sub, text) ==
    \E i \in 1..(Len(text) + 1) :
        i + Len(sub) - 1 <= Len(text) /\ SubSeq(text, i, i + Len(sub) - 1) = sub

\* _load_stop_times (lines 113-126): _stop_times of the file's stop
load_stop_times(rows) ==
    IF rows = <<>> THEN EmptyDict ELSE ("s1" :> rows)

\* _load_calendar_dates (lines 134-142): a later row replaces an earlier one
RECURSIVE load_calendar_dates(_, _)
load_calendar_dates(rows, n) ==
    IF n = 0 THEN EmptyDict
    ELSE LET cal == load_calendar_dates(rows, n - 1)
             row == rows[n]
             base == IF row.service_id \in DOMAIN cal THEN cal
                     ELSE (row.service_id :> EmptyDict) @@ cal
         IN  [base EXCEPT ![row.service_id] = (row.date :> row.exception_type) @@ @]

\* Variant: a service without an entry for the date runs by default.
is_service_active_by_default(calendar_dates, service_id, check_date) ==
    IF service_id = "" THEN FALSE
    ELSE LET date_str == strftime_Ymd(check_date)
             service_dates == IF service_id \in DOMAIN calendar_dates
                              THEN calendar_dates[service_id] ELSE EmptyDict
         IN  IF date_str \in DOMAIN service_dates
             THEN service_dates[date_str] = "1"
             ELSE TRUE

\* _is_service_active
is_service_active(calendar_dates, service_id, check_date) ==
    IF service_id = "" THEN FALSE
    ELSE LET date_str == strftime_Ymd(check_date)
             service_dates == IF service_id \in DOMAIN calendar_dates
                              THEN calendar_dates[service_id] ELSE EmptyDict
         IN  IF date_str \in DOMAIN service_dates
             THEN service_dates[date_str] = "1"
             ELSE FALSE

\* lines 176-199: the departure built from a stop_times row; its trip and its
\* route may be unknown ({} in Python)
trip_of(st) ==
    IF st.trip_id \in DOMAIN sched_trips THEN sched_trips[st.trip_id]
    ELSE [route_id |-> "", service_id |-> ""]

line_number_of(st) ==
    IF trip_of(st).route_id \in DOMAIN sched_routes
    THEN sched_routes[trip_of(st).route_id].route_short_name
    ELSE <<>>

\* line 172: start_time <= dep_time <= end_time
in_time_range(dep_time, start_time, end_time) ==
    str_leq(start_time, dep_time) /\ str_leq(dep_time, end_time)

\* lines 168-199: whether the loop keeps a stop_times row
keeps_row(calendar_dates, st, target_date, start_time, end_time, line_filter) ==
    /\ in_time_range(st.departure_time, start_time, end_time)
    /\ is_service_active(calendar_dates, trip_of(st).service_id, target_date)
    /\ ~(line_filter # <<>> /\ ~str_in(line_filter, line_number_of(st)))

RECURSIVE collect_departures(_, _, _, _, _, _, _)
collect_departures(calendar_dates, stop_times, n, target_date, start_time, end_time, line_filter) ==
    IF n = 0 THEN <<>>
    ELSE LET rest == collect_departures(calendar_dates, stop_times, n - 1, target_date,
                                        start_time, end_time, line_filter)
             st == stop_times[n]
         IN  IF keeps_row(calendar_dates, st, target_date, start_time, end_time,
                          line_filter)
             THEN Append(rest, [departure_time |-> st.departure_time,
                                line_number |-> line_number_of(st),
                                trip_id |-> st.trip_id])
             ELSE rest

\* departures.sort(key=lambda x: x["departure_time"]): stable
RECURSIVE insert_by_departure(_, _)
insert_by_departure(sorted, x) ==
    IF sorted = <<>> THEN <<x>>
    ELSE IF str_leq(sorted[Len(sorted)].departure_time, x.departure_time)
         THEN Append(sorted, x)
    ELSE Append(insert_by_departure(SubSeq(sorted, 1, Len(sorted) - 1), x),
                sorted[Len(sorted)])

RECURSIVE sort_by_departure(_)
sort_by_departure(deps) ==
    IF deps = <<>> THEN <<>>
    ELSE insert_by_departure(sort_by_departure(SubSeq(deps, 1, Len(deps) - 1)),
                             deps[Len(deps)])

\* departures[:limit], limit >= 0
truncate(deps, limit) == SubSeq(deps, 1, IF limit < Len(deps) THEN limit ELSE Len(deps))

\* Variant: the list is cut before it is sorted.
truncate_then_sort(deps, limit) == sort_by_departure(truncate(deps, limit))

\* lines 201-204
sort_and_truncate(deps, limit) == truncate(sort_by_departure(deps), limit)

\* get_schedule on loaded tables
get_schedule(stop_times_table, calendar_dates, stop_id, target_date, start_time, end_time, line_filter, limit) ==
    LET stop_times == IF stop_id \in DOMAIN stop_times_table
                      THEN stop_times_table[stop_id] ELSE <<>>
    IN  IF stop_times = <<>> THEN <<>>
        ELSE sort_and_truncate(
                 collect_departures(calendar_dates, stop_times, Len(stop_times),
                                    target_date, start_time, end_time, line_filter),
                 limit)

NoScheduleQuery == [made |-> FALSE]

\* load(), the archive holding these stop_times.txt and calendar_dates.txt;
\* get_schedule awaits it first when nothing is loaded yet (lines 154-155).
SchedLoad ==
    /\ ~sched_loaded
    /\ \E rows \in ScheduleFiles : \E cal \in CalendarFiles :
          /\ sched_stop_times' = load_stop_times(rows)
          /\ sched_calendar_dates' = load_calendar_dates(cal, Len(cal))
    /\ sched_loaded' = TRUE
    /\ UNCHANGED <<sched_query, departures, gateVars, connVars, cacheVars, laterVars>>

GetSchedule ==
    /\ sched_loaded
    /\ ~sched_query.made
    /\ \E stop_id \in {"s1", "s2"}, target_date \in TargetDates, start_time \in StartTimes,
          end_time \in EndTimes, line_filter \in LineFilters, limit \in Limits :
          /\ sched_query' = [made |-> TRUE, stop_id |-> stop_id,
                             target_date |-> target_date, start_time |-> start_time,
                             end_time |-> end_time, line_filter |-> line_filter,
                             limit |-> limit]
          /\ departures' = get_schedule(sched_stop_times, sched_calendar_dates, stop_id,
                                        target_date, start_time, end_time, line_filter,
                                        limit)
    /\ UNCHANGED <<sched_stop_times, sched_calendar_dates, sched_loaded, gateVars,
                   connVars, cacheVars, laterVars>>

\* The latest get_schedule call returns to its caller.
SchedReturn ==
    /\ sched_query.made
    /\ sched_query' = NoScheduleQuery
    /\ departures' = <<>>
    /\ UNCHANGED <<sched_stop_times, sched_calendar_dates, sched_loaded, gateVars,
                   connVars, cacheVars, laterVars>>

SchedNext == SchedLoad \/ GetSchedule \/ SchedReturn

----------------------------------------------------------------------------
(* gtfs.py, gtfs_schedule.py: a load that fails.  Both load() methods catch  *)
(* every exception and set _loaded; what they assigned before the failure    *)
(* stays.                                                                     *)

\* GTFSStopCache.load: the archive is missing (lines 36-39), it has no
\* stops.txt (49-52), the zip or stops.txt cannot be read (an exception before
\* line 77, caught at 117), or stop_times.txt fails at some row (caught at 114).
CacheFaults == {"missing", "no_stops_txt", "stops_error", "stop_times_error"}

\* GTFSSchedule.load: the archive is missing (lines 45-48) or an exception is
\* caught at line 74: the zip cannot be read, or a table fails at some row.
SchedFaults == {"missing", "bad_zip", "routes_error", "trips_error",
                "stop_times_error", "calendar_dates_error"}

\* _stop_code_to_id after the failed load of an empty cache: line 80 is reached
\* only when stops.txt was read.
faulty_stop_code_to_id(fault, stops_file) ==
    IF fault = "stop_times_error"
    THEN build_stop_code_to_id(stops_file, Len(StopOrder))
    ELSE EmptyDict

\* _stop_times after the failed load of an empty index: the rows before the
\* failing one when stop_times.txt fails (_load_stop_times appends row by row),
\* every row when a later table fails, none when an earlier step fails.
faulty_stop_times(fault, rows, k) ==
    IF fault = "stop_times_error" THEN load_stop_times(SubSeq(rows, 1, k))
    ELSE IF fault = "calendar_dates_error" THEN load_stop_times(rows)
    ELSE EmptyDict

\* _calendar_dates after the failed load: the rows before the failing one.
faulty_calendar_dates(fault, cal, k) ==
    IF fault = "calendar_dates_error" THEN load_calendar_dates(cal, k)
    ELSE EmptyDict

\* GTFSStopCache.load() fails.  line 112 (self._trips = trips) is not reached.
LoadFails ==
    /\ ~cache_loaded
    /\ ~sched_loaded
    /\ \E fault \in CacheFaults : \E stops_file \in StopsFiles :
          /\ stop_code_to_id' = faulty_stop_code_to_id(fault, stops_file)
          /\ cache_fault' = fault
    /\ cache_loaded' = TRUE
    /\ UNCHANGED <<cache_trips, trips_query, matching_trips, sched_fault>>
    /\ UNCHANGED <<gateVars, connVars, schedVars, notArchive>>

\* GTFSSchedule.load() fails; row k + 1 of the failing table is the one that
\* raises.
SchedLoadFails ==
    /\ ~sched_loaded
    /\ ~cache_loaded
    /\ \E fault \in SchedFaults : \E rows \in ScheduleFiles : \E cal \in CalendarFiles :
          \E k \in 0..MaxDepartures :
              /\ fault = "stop_times_error" => k < Len(rows)
              /\ fault = "calendar_dates_error" => k < Len(cal)
              /\ fault \notin {"stop_times_error", "calendar_dates_error"} => k = 0
              /\ sched_stop_times' = faulty_stop_times(fault, rows, k)
              /\ sched_calendar_dates' = faulty_calendar_dates(fault, cal, k)
              /\ sched_fault' = fault
    /\ sched_loaded' = TRUE
    /\ UNCHANGED <<sched_query, departures, cache_fault>>
    /\ UNCHANGED <<gateVars, connVars, cacheVars, notArchive>>

\* A failed load, then the queries of the index that was loaded.
ArchiveNext ==
    \/ LoadFails
    \/ SchedLoadFails
    \/ GetTripsBetweenStops
    \/ CacheReturn
    \/ GetSchedule
    \/ SchedReturn

----------------------------------------------------------------------------
(* api.py: the delay of a departure.  Instants are seconds after 10:00:00.   *)

\* 10:00:00, 10:07:00, 10:08:40, 10:15:00, 10:16:30
FeedSeconds == {0, 420, 520, 900, 990}

\* Values of a feed's time field: absent, a string datetime.fromisoformat
\* rejects, or an ISO instant.
FeedInstants == {MissingInstant, InvalidInstant} \cup {IsoInstant(sec) : sec \in FeedSeconds}

\* _calculate_ovapi_delay(pass_data)
calculate_ovapi_delay(pass_data) ==
    LET expected == pass_data.ExpectedDepartureTime
        target == pass_data.TargetDepartureTime
    IN  IF expected.form = "missing" \/ target.form = "missing" THEN 0
        ELSE IF expected.form # "iso" \/ target.form # "iso" THEN 0
        ELSE int_minutes(expected.second - target.second)

\* get_ns_departures, lines 445-446: actualDateTime defaults to plannedDateTime
ns_actual_time(dep) ==
    IF dep.actualDateTime.form = "missing" THEN dep.plannedDateTime
    ELSE dep.actualDateTime

\* get_ns_departures, lines 449-456
ns_delay(dep) ==
    LET planned_time == dep.plannedDateTime
        actual_time == ns_actual_time(dep)
    IN  IF planned_time.form = "missing" \/ actual_time.form = "missing" THEN 0
        ELSE IF planned_time.form # "iso" \/ actual_time.form # "iso" THEN 0
        ELSE int_minutes(actual_time.second - planned_time.second)

\* The real-time adapter computes the delay of the record.
CalculateOvapiDelay ==
    /\ delay_result.by = "none"
    /\ delay_result' =
          [by |-> "ovapi",
           minutes |-> calculate_ovapi_delay(
               [ExpectedDepartureTime |-> delay_input.expected,
                TargetDepartureTime |-> delay_input.target])]
    /\ UNCHANGED <<delay_input, coreVars, notDelay>>

\* The train adapter computes the delay of the record.
NsDelay ==
    /\ delay_result.by = "none"
    /\ delay_result' =
          [by |-> "ns",
           minutes |-> ns_delay([actualDateTime |-> delay_input.expected,
                                 plannedDateTime |-> delay_input.target])]
    /\ UNCHANGED <<delay_input, coreVars, notDelay>>

DelayNext == CalculateOvapiDelay \/ NsDelay

----------------------------------------------------------------------------
(* api.py: get_journey and the two adapters.  Strings of digits (line        *)
(* numbers, line filters) are tuples of digits; journey numbers and trip ids *)
(* are tuples of one-character strings.                                       *)

\* Variant: the default result recommends a reroute.
get_default_data_rerouting ==
    [departure_time |-> MissingInstant, arrival_time |-> MissingInstant,
     delay |-> 0, delay_reason |-> "", platform |-> "", coordinates |-> <<>>,
     upcoming_departures |-> <<>>, alternatives |-> <<>>,
     has_alternatives |-> FALSE, missed_connection |-> FALSE,
     reroute_recommended |-> TRUE]

\* _get_default_data
get_default_data ==
    [departure_time |-> MissingInstant, arrival_time |-> MissingInstant,
     delay |-> 0, delay_reason |-> "", platform |-> "", coordinates |-> <<>>,
     upcoming_departures |-> <<>>, alternatives |-> <<>>,
     has_alternatives |-> FALSE, missed_connection |-> FALSE,
     reroute_recommended |-> FALSE]

\* What the body of an adapter's try block does: it returns a value or raises.
Returns(value) == [raised |-> FALSE, value |-> value]

Raises == [raised |-> TRUE, value |-> get_default_data]

\* _minutes_until(departure_time_str), with datetime.now() = now
minutes_until(departure_time, now) ==
    IF departure_time.form = "missing" THEN 0
    ELSE IF departure_time.form # "iso" THEN 0
    ELSE LET delta == int_minutes(departure_time.second - now)
         IN  IF delta > 0 THEN delta ELSE 0

\* Variant: only passed vehicles are skipped.
status_skipped_passed(pass_data) == pass_data.TripStopStatus = "PASSED"

\* lines 196-199
status_skipped(pass_data) == pass_data.TripStopStatus \in {"PASSED", "CANCELLED"}

\* lines 208-211
line_skipped(pass_data, line_filter) ==
    line_filter # <<>> /\ ~str_in(line_filter, pass_data.LinePublicNumber)

\* trip_id.endswith(f"|{journey_number}|0")
ends_with_journey(trip_id, journey_number) ==
    LET suffix == <<"|">> \o journey_number \o <<"|", "0">>
    IN  /\ Len(suffix) <= Len(trip_id)
        /\ SubSeq(trip_id, Len(trip_id) - Len(suffix) + 1, Len(trip_id)) = suffix

\* Variant: a passage without a journey number is let through.
trip_skipped_numbered(pass_data, destination_filter, valid_trip_ids) ==
    /\ valid_trip_ids # {} /\ destination_filter # ""
    /\ pass_data.JourneyNumber # <<>>
    /\ ~ \E trip_id \in valid_trip_ids :
            \/ str_in(pass_data.JourneyNumber, trip_id)
            \/ ends_with_journey(trip_id, pass_data.JourneyNumber)

\* lines 213-227
trip_skipped(pass_data, destination_filter, valid_trip_ids) ==
    /\ valid_trip_ids # {} /\ destination_filter # ""
    /\ ~ ( /\ pass_data.JourneyNumber # <<>>
           /\ \E trip_id \in valid_trip_ids :
                \/ str_in(pass_data.JourneyNumber, trip_id)
                \/ ends_with_journey(trip_id, pass_data.JourneyNumber) )

\* lines 243-256
ovapi_departure(pass_data, now) ==
    [line_number |-> pass_data.LinePublicNumber,
     expected_departure |-> pass_data.ExpectedDepartureTime,
     expected_arrival |-> pass_data.ExpectedArrivalTime,
     target_departure |-> pass_data.TargetDepartureTime,
     delay |-> calculate_ovapi_delay(pass_data),
     status |-> pass_data.TripStopStatus,
     minutes_until_departure |-> minutes_until(pass_data.ExpectedDepartureTime, now),
     journey_number |-> pass_data.JourneyNumber]

\* lines 192-256: the loop over the passes
RECURSIVE collect_passes(_, _, _, _, _, _)
collect_passes(passes, n, destination_filter, line_filter, valid_trip_ids, now) ==
    IF n = 0 THEN <<>>
    ELSE LET rest == collect_passes(passes, n - 1, destination_filter, line_filter,
                                    valid_trip_ids, now)
             pass_data == passes[n]
         IN  IF ~pass_data.is_dict THEN rest
             ELSE IF status_skipped(pass_data) THEN rest
             ELSE IF line_skipped(pass_data, line_filter) THEN rest
             ELSE IF trip_skipped(pass_data, destination_filter, valid_trip_ids) THEN rest
             ELSE Append(rest, ovapi_departure(pass_data, now))

\* str <= str on the values of expected_departure: ISO strings of one day
\* order as their instants; a string that is no ISO instant starts with a
\* letter and sorts after them.
departs_leq(a, b) ==
    IF a.form = "iso" /\ b.form = "iso" THEN a.second <= b.second
    ELSE b.form # "iso"

RECURSIVE insert_by_expected(_, _)
insert_by_expected(sorted, x) ==
    IF sorted = <<>> THEN <<x>>
    ELSE IF departs_leq(sorted[Len(sorted)].expected_departure, x.expected_departure)
         THEN Append(sorted, x)
    ELSE Append(insert_by_expected(SubSeq(sorted, 1, Len(sorted) - 1), x),
                sorted[Len(sorted)])

\* line 259, the stable sort
RECURSIVE sort_by_expected(_)
sort_by_expected(deps) ==
    IF deps = <<>> THEN <<>>
    ELSE insert_by_expected(sort_by_expected(SubSeq(deps, 1, Len(deps) - 1)),
                            deps[Len(deps)])

\* line 259: comparing a None key with another key raises TypeError
sort_raises(deps) ==
    Len(deps) >= 2 /\ \E i \in DOMAIN deps : deps[i].expected_departure.form = "missing"

\* _parse_ovapi_passes
parse_ovapi_passes(passes, destination_filter, line_filter, limit, valid_trip_ids, now) ==
    LET collected == collect_passes(passes, Len(passes), destination_filter,
                                    line_filter, valid_trip_ids, now)
    IN  IF sort_raises(collected) THEN Raises
        ELSE Returns(truncate(sort_by_expected(collected), limit))

\* lines 139-146: the origin stop's position, when the feed carries one
ovapi_coordinates(stop_has_position) ==
    IF stop_has_position THEN <<"origin">> ELSE <<>>

\* lines 135-174
ovapi_journey(departures_list, stop_has_position) ==
    LET first_departure == departures_list[1]
    IN  [departure_time |-> first_departure.expected_departure,
         arrival_time |-> first_departure.expected_arrival,
         delay |-> first_departure.delay, delay_reason |-> "", platform |-> "",
         coordinates |-> ovapi_coordinates(stop_has_position),
         upcoming_departures |-> departures_list, alternatives |-> <<>>,
         has_alternatives |-> Len(departures_list) > 1,
         missed_connection |-> FALSE, reroute_recommended |-> FALSE]

\* _get_ovapi_journey, lines 74-174: the body of the try block
ovapi_try(request, response, now) ==
    IF response.kind \in {"timeout", "connection_error"} THEN Raises
    ELSE IF response.kind = "status_500" THEN Returns(get_default_data)
    ELSE IF response.kind \in {"bad_json", "not_object"} THEN Raises
    ELSE IF response.kind \in {"missing_outer", "missing_inner"}
         THEN Returns(get_default_data)
    ELSE LET parsed == parse_ovapi_passes(response.payload, request.destination,
                                          request.line_filter, request.num_departures,
                                          request.valid_trip_ids, now)
         IN  IF parsed.raised THEN Raises
             ELSE IF parsed.value = <<>> THEN Returns(get_default_data)
             ELSE Returns(ovapi_journey(parsed.value, response.stop_has_position))

\* Variant: the exception reaches the caller.
except_nothing(body) == body

\* lines 176-178 and 500-502: except Exception
except_Exception(body) ==
    IF body.raised THEN Returns(get_default_data) ELSE body

\* _get_ovapi_journey
get_ovapi_journey(request, response, now) ==
    except_Exception(ovapi_try(request, response, now))

\* lines 445-473
ns_departure(dep, now) ==
    [expected_departure |-> ns_actual_time(dep),
     expected_arrival |-> MissingInstant,
     target_departure |-> dep.plannedDateTime,
     delay |-> ns_delay(dep),
     minutes_until_departure |-> minutes_until(ns_actual_time(dep), now),
     platform |-> ""]

\* lines 443-473: the loop over departures_data[:num_departures]
convert_ns(departures_data, now) ==
    [i \in DOMAIN departures_data |-> ns_departure(departures_data[i], now)]

\* lines 478-498
ns_journey(departures_list) ==
    LET first_departure == departures_list[1]
    IN  [departure_time |-> first_departure.expected_departure,
         arrival_time |-> MissingInstant,
         delay |-> first_departure.delay, delay_reason |-> "",
         platform |-> first_departure.platform, coordinates |-> <<>>,
         upcoming_departures |-> departures_list, alternatives |-> <<>>,
         has_alternatives |-> Len(departures_list) > 1,
         missed_connection |-> FALSE, reroute_recommended |-> FALSE]

\* get_ns_departures, lines 418-498: the body of the try block
ns_try(request, response, now) ==
    IF response.kind \in {"timeout", "connection_error"} THEN Raises
    ELSE IF response.kind = "status_500" THEN Returns(get_default_data)
    ELSE IF response.kind \in {"bad_json", "not_object"} THEN Raises
    ELSE IF response.kind \in {"missing_outer", "missing_inner"}
         THEN Returns(get_default_data)
    ELSE LET departures_data == truncate(response.payload, request.num_departures)
         IN  IF departures_data = <<>> THEN Returns(get_default_data)
             ELSE IF \E i \in DOMAIN departures_data : ~departures_data[i].is_dict
                  THEN Raises
             ELSE Returns(ns_journey(convert_ns(departures_data, now)))

\* get_ns_departures
get_ns_departures(request, response, now) ==
    IF ~request.ns_api_key THEN Returns(get_default_data)
    ELSE except_Exception(ns_try(request, response, now))

\* lines 45-48: which adapter get_journey uses
uses_ns(request) ==
    \/ request.transport_type = "train"
    \/ ~request.origin_isdigit /\ request.ns_api_key

\* get_journey
get_journey(request, response, now) ==
    IF uses_ns(request) THEN get_ns_departures(request, response, now)
    ELSE get_ovapi_journey(request, response, now)

\* Times of the feeds: 10:07:00, 10:13:30, 10:15:00 expected; 10:00:00 and
\* 10:15:00 planned; arrivals 10:25:00 and 10:30:00.
ExpectedTimes == {MissingInstant, IsoInstant(420), IsoInstant(810), IsoInstant(900)}

TargetTimes == {IsoInstant(0), IsoInstant(900)}

ArrivalTimes == {IsoInstant(1500), IsoInstant(1800)}

\* Entries of the real-time feed's Passes.
Passes ==
    [is_dict : {TRUE}, TripStopStatus : {""}, LinePublicNumber : {<<1, 7>>},
     JourneyNumber : {<<"1", "2">>}, ExpectedDepartureTime : ExpectedTimes,
     TargetDepartureTime : TargetTimes, ExpectedArrivalTime : ArrivalTimes]
    \cup
    [is_dict : {TRUE}, TripStopStatus : {"PASSED"}, LinePublicNumber : {<<1, 7>>},
     JourneyNumber : {<<"1", "2">>}, ExpectedDepartureTime : {IsoInstant(420)},
     TargetDepartureTime : {IsoInstant(0)}, ExpectedArrivalTime : {IsoInstant(1500)}]

\* Entries of the train feed's departures.
NsDepartures ==
    [is_dict : {TRUE}, plannedDateTime : TargetTimes, actualDateTime : ExpectedTimes]
    \cup
    [is_dict : {FALSE}, plannedDateTime : {MissingInstant},
     actualDateTime : {MissingInstant}]

PassLists == UNION { [1..n -> Passes] : n \in 0..MaxPasses }

NsDepartureLists == UNION { [1..n -> NsDepartures] : n \in 0..MaxPasses }

ResponseKinds ==
    {"ok", "status_500", "timeout", "connection_error", "bad_json", "not_object",
     "missing_outer", "missing_inner"}

\* A get_journey call without destination or line filter.
Request(origin_isdigit, transport_type, ns_api_key, num_departures) ==
    [origin_isdigit |-> origin_isdigit, transport_type |-> transport_type,
     ns_api_key |-> ns_api_key, num_departures |-> num_departures,
     destination |-> "", line_filter |-> <<>>, valid_trip_ids |-> {}]

\* The requests made: a bus stop, a station with and without the credential,
\* and a route declared a train without the credential.
OvapiRequests == {Request(isdigit, None, FALSE, n) : isdigit \in BOOLEAN, n \in Limits}

NsRequests == {Request(FALSE, None, TRUE, n) : n \in Limits}

NoKeyRequests == {Request(FALSE, "train", FALSE, n) : n \in Limits}

\* A response that was parsed into a payload.
OkResponse(payload) == [kind |-> "ok", payload |-> payload, stop_has_position |-> TRUE]

\* A response that failed on the way, or arrived without the payload.
FailedResponses ==
    [kind : ResponseKinds \ {"ok"}, payload : {<<>>}, stop_has_position : {FALSE}]

NoJourney == get_default_data

\* config_flow.py 268-279, async_step_select_lines: ",".join(selected_lines),
\* "" when no line is selected
RECURSIVE join_lines(_)
join_lines(selected_lines) ==
    IF selected_lines = <<>> THEN <<>>
    ELSE IF Len(selected_lines) = 1 THEN selected_lines[1]
    ELSE selected_lines[1] \o <<",">> \o join_lines(Tail(selected_lines))

\* Line names, as tuples of characters: 17, 18, N17 and, typed by hand, n17.
LineNames == {<<"1", "7">>, <<"1", "8">>, <<"N", "1", "7">>}

SelectableLines == {<<"1", "7">>, <<"1", "8">>, <<"n", "1", "7">>}

\* The selection of the multi-select: up to two different lines.
SelectedLines ==
    UNION { { sel \in [1..n -> SelectableLines] :
                \A i, k \in 1..n : i # k => sel[i] # sel[k] } : n \in 0..2 }

\* Trip ids of the timetable, as tuples of characters: 7|12|0 and 7|99|0.
TripIdSets == { {<<"7", "|", "1", "2", "|", "0">>},
                {<<"7", "|", "1", "2", "|", "0">>, <<"7", "|", "9", "9", "|", "0">>} }

\* Entries of the real-time feed's Passes, for the filters: every line with
\* two journey numbers, running or passed; a cancelled passage; a passage
\* without journey number.
FilterPasses ==
    [is_dict : {TRUE}, TripStopStatus : {"", "PASSED"}, LinePublicNumber : LineNames,
     JourneyNumber : {<<"1", "2">>, <<"3", "4">>},
     ExpectedDepartureTime : {IsoInstant(420)},
     TargetDepartureTime : {IsoInstant(0)}, ExpectedArrivalTime : {IsoInstant(1500)}]
    \cup
    [is_dict : {TRUE}, TripStopStatus : {"CANCELLED"}, LinePublicNumber : {<<"1", "7">>},
     JourneyNumber : {<<"1", "2">>}, ExpectedDepartureTime : {IsoInstant(420)},
     TargetDepartureTime : {IsoInstant(0)}, ExpectedArrivalTime : {IsoInstant(1500)}]
    \cup
    [is_dict : {TRUE}, TripStopStatus : {""}, LinePublicNumber : {<<"1", "7">>},
     JourneyNumber : {<<>>}, ExpectedDepartureTime : {IsoInstant(420)},
     TargetDepartureTime : {IsoInstant(0)}, ExpectedArrivalTime : {IsoInstant(1500)}]

FilterPassLists == UNION { [1..n -> FilterPasses] : n \in 0..MaxPasses }

\* A get_journey call of the poll cycle for a bus stop (__init__.py 108-118):
\* the route's line_filter, its destination and the trips the timetable gives
\* for it (api.py 58-71); as many departures as the feed may hold.
FilterRequest(line_filter, destination, valid_trip_ids) ==
    [origin_isdigit |-> TRUE, transport_type |-> None, ns_api_key |-> FALSE,
     num_departures |-> MaxPasses, destination |-> destination,
     line_filter |-> line_filter, valid_trip_ids |-> valid_trip_ids]

\* The requests of the routes: a route of the wizard without destination
\* lookup, and routes with a destination for which the timetable has no trip,
\* one trip or two.
FilterRequests ==
    {FilterRequest(join_lines(selected), "", {}) : selected \in SelectedLines}
    \cup
    {FilterRequest(line_filter, "d", ids) :
        line_filter \in {<<>>, <<"1", "7">>}, ids \in {{}} \cup TripIdSets}

\* One get_journey call.
GetJourney ==
    /\ api_calls < MaxApiCalls
    /\ LET got == get_journey(api_request, api_response, api_now)
       IN  /\ api_outcome' = IF got.raised THEN "raised" ELSE "returned"
           /\ journey' = got.value
    /\ prev_journey' = journey
    /\ api_calls' = api_calls + 1
    /\ UNCHANGED <<api_request, api_response, api_now, coreVars, notApi>>

\* A minute passes between two calls.
ApiTick ==
    /\ api_now + 60 <= MaxApiClock
    /\ api_now' = api_now + 60
    /\ UNCHANGED <<api_request, api_response, api_calls, api_outcome, journey,
                   prev_journey, coreVars, notApi>>

ApiNext == GetJourney \/ ApiTick

----------------------------------------------------------------------------
(* __init__.py: one poll cycle, _async_update_data.  A route is a single-leg *)
(* route, a single-leg route stored without "origin", or a multi-leg route;  *)
(* should_show_route's answer for it and whether the schedule lookup raises  *)
(* are given with the route.                                                 *)

PollRoutes ==
    [shape : {"single", "no_origin", "multi"}, active : BOOLEAN,
     schedule_raises : BOOLEAN]

PollRouteLists == UNION { [1..n -> PollRoutes] : n \in 1..MaxRoutes }

\* line 138: check_and_notify(route, journey_data, current_time) is called
\* with three arguments; notifications.py 39-43 takes two, so the call raises
\* TypeError.
gate_call_raises == TRUE

\* lines 120-135: the schedule lookup; what it raises is caught
schedule_lookup(route) == IF route.schedule_raises THEN "caught" ELSE "attached"

\* lines 96-138: one iteration.  stored: data got the route's journey;
\* scheduled: the journey carries scheduled_departures; raised: the iteration
\* left the loop with an exception (KeyError at line 108, TypeError at 138).
evaluate_route(route) ==
    IF ~route.active THEN [stored |-> FALSE, scheduled |-> FALSE, raised |-> FALSE]
    ELSE IF route.shape = "multi"
         THEN [stored |-> TRUE, scheduled |-> FALSE, raised |-> FALSE]
    ELSE IF route.shape = "no_origin"
         THEN [stored |-> FALSE, scheduled |-> FALSE, raised |-> TRUE]
    ELSE [stored |-> TRUE, scheduled |-> schedule_lookup(route) = "attached",
          raised |-> gate_call_raises]

\* One iteration of the loop; lines 141-142 turn an exception into UpdateFailed.
PollRoute ==
    /\ poll_result = "running"
    /\ poll_i <= Len(poll_routes)
    /\ LET done == evaluate_route(poll_routes[poll_i])
       IN  /\ poll_data' = IF done.stored THEN poll_data \cup {poll_i} ELSE poll_data
           /\ poll_result' = IF done.raised THEN "UpdateFailed" ELSE "running"
    /\ poll_i' = poll_i + 1
    /\ UNCHANGED <<poll_routes, poll_published, coreVars, notPoll>>

\* line 140: return data
PollReturn ==
    /\ poll_result = "running"
    /\ poll_i > Len(poll_routes)
    /\ poll_result' = "returned"
    /\ poll_published' = poll_data
    /\ UNCHANGED <<poll_routes, poll_i, poll_data, coreVars, notPoll>>

PollNext == PollRoute \/ PollReturn

----------------------------------------------------------------------------
(* notifications.py: inputs of check_and_notify *)

\* Values of journey_data["departure_time"]: absent (None or ""), a string that
\* datetime.fromisoformat rejects, or an ISO instant (minute).
MissingTime == [form |-> "missing", minute |-> 0]

InvalidTime == [form |-> "invalid", minute |-> 0]

IsoTime(m) == [form |-> "iso", minute |-> m]

\* departure_time as minutes after the instant of the call, inside the window
\* of DEFAULT_NOTIFY_BEFORE minutes (30 is its last minute).
DepOffsets == {20, 30}

\* The departure 20 minutes away, seen again 2 minutes later.
LaterOffsets == {18}

\* Already departed, and further away than the window.
OutsideOffsets == {0, 32}

Delays == {4, 5, 8}

\* route_config dicts: one route with every toggle combination and a second
\* route with both toggles off.
RouteConfigs ==
    { [origin |-> "A", destination |-> "B", notify_before |-> DEFAULT_NOTIFY_BEFORE,
       min_delay_threshold |-> DEFAULT_MIN_DELAY,
       notify_on_delay |-> d, notify_on_disruption |-> p] : d \in BOOLEAN, p \in BOOLEAN }
    \cup
    { [origin |-> "C", destination |-> "D", notify_before |-> DEFAULT_NOTIFY_BEFORE,
       min_delay_threshold |-> DEFAULT_MIN_DELAY,
       notify_on_delay |-> FALSE, notify_on_disruption |-> FALSE] }

\* journey_data dicts for a call at instant now.  The calls that return before
\* line 69 (no departure time, an unparsable one, a departure outside the
\* window) carry the journey with every trigger on; they never read the rest.
\* The journey seen again 2 minutes later is the delayed one, delay 8.
JourneyData(now) ==
    [departure_time : {IsoTime(now + d) : d \in DepOffsets},
     delay : Delays,
     delay_reason : {None, "strike"},
     missed_connection : BOOLEAN,
     reroute_recommended : BOOLEAN]
    \cup
    [departure_time : {IsoTime(now + d) : d \in LaterOffsets},
     delay : {8},
     delay_reason : {None},
     missed_connection : {FALSE},
     reroute_recommended : {FALSE}]
    \cup
    [departure_time : {MissingTime, InvalidTime}
                          \cup {IsoTime(now + d) : d \in OutsideOffsets},
     delay : {8},
     delay_reason : {"strike"},
     missed_connection : {TRUE},
     reroute_recommended : {TRUE}]

----------------------------------------------------------------------------
(* notifications.py: NotificationManager *)

\* f"{origin}_{destination}"
route_key(route_config) == route_config.origin \o "_" \o route_config.destination

\* datetime.fromisoformat(departure_time_str.replace("Z", "+00:00")) succeeds
ParsesAsTime(s) == s.form = "iso"

\* Variant: the elapsed seconds, not minutes, are compared with 10.
was_recently_notified_seconds(nr, key, notification_type, now) ==
    IF key \notin DOMAIN nr THEN FALSE
    ELSE IF notification_type \notin DOMAIN nr[key] THEN FALSE
    ELSE (now - nr[key][notification_type]) * 60 < 10

\* Variant: the tenth minute still counts as recent.
was_recently_notified_inclusive(nr, key, notification_type, now) ==
    IF key \notin DOMAIN nr THEN FALSE
    ELSE IF notification_type \notin DOMAIN nr[key] THEN FALSE
    ELSE (now - nr[key][notification_type]) <= 10

\* _was_recently_notified, with dt_util.now() = now
was_recently_notified(nr, key, notification_type, now) ==
    IF key \notin DOMAIN nr THEN FALSE
    ELSE IF notification_type \notin DOMAIN nr[key] THEN FALSE
    ELSE (now - nr[key][notification_type]) < 10

\* Variant: the route's dict is created anew on every mark.
mark_notified_fresh(nr, key, notification_type, now) ==
    (key :> (notification_type :> now)) @@ nr

\* _mark_notified, with dt_util.now() = now
mark_notified(nr, key, notification_type, now) ==
    LET base == IF key \in DOMAIN nr THEN nr ELSE (key :> EmptyDict) @@ nr
    IN  [base EXCEPT ![key] = (notification_type :> now) @@ @]

\* History of hass.bus.async_fire: the instant of the latest event of a kind
\* for a route key.
record_fire(lf, key, kind, now) ==
    LET base == IF key \in DOMAIN lf THEN lf ELSE (key :> EmptyDict) @@ lf
    IN  [base EXCEPT ![key] = (kind :> now) @@ @]

\* One guarded block of check_and_notify (lines 76-80, 83-87, 90-94): when the
\* condition holds and the kind was not recently notified, send, fire the bus
\* event and mark.  s = [nr, bus, lf] is the state threaded through the call.
notify_block(s, cond, key, notification_type, event_type, now) ==
    IF cond /\ ~was_recently_notified(s.nr, key, notification_type, now)
    THEN [nr  |-> mark_notified(s.nr, key, notification_type, now),
          bus |-> Append(s.bus, event_type),
          lf  |-> record_fire(s.lf, key, notification_type, now)]
    ELSE s

\* _fire_reroute_event: the event type
reroute_event_type(journey_data) ==
    IF journey_data.missed_connection THEN EVENT_MISSED_CONNECTION
    ELSE EVENT_REROUTE_SUGGESTED

\* Variant: a departure at this very minute counts as inside the window.
in_notification_window_closed(time_until_departure, notify_before) ==
    0 <= time_until_departure /\ time_until_departure <= notify_before

\* line 66: 0 < time_until_departure <= notify_before
in_notification_window(time_until_departure, notify_before) ==
    0 < time_until_departure /\ time_until_departure <= notify_before

\* Variant: the delay must exceed the threshold.
delay_condition_strict(route_config, journey_data) ==
    route_config.notify_on_delay
        /\ journey_data.delay > route_config.min_delay_threshold

\* line 76: route_config.get(CONF_NOTIFY_ON_DELAY, True) and delay >= min_delay
delay_condition(route_config, journey_data) ==
    route_config.notify_on_delay
        /\ journey_data.delay >= route_config.min_delay_threshold

\* line 83: route_config.get(CONF_NOTIFY_ON_DISRUPTION, True) and delay_reason
disruption_condition(route_config, journey_data) ==
    route_config.notify_on_disruption /\ journey_data.delay_reason # None

\* Variant: reroute notifications follow the disruption toggle.
reroute_condition_toggled(route_config, journey_data) ==
    route_config.notify_on_disruption
        /\ (journey_data.missed_connection \/ journey_data.reroute_recommended)

\* line 90: missed_connection or reroute_recommended
reroute_condition(route_config, journey_data) ==
    journey_data.missed_connection \/ journey_data.reroute_recommended

\* Variant: the reminder goes through the cool-down like the other kinds.
fire_departure_reminder_cooled(s, key, now) ==
    notify_block(s, TRUE, key, "departure_reminder", EVENT_DEPARTURE_REMINDER, now)

\* line 73, _fire_departure_reminder_event: fired on the bus unconditionally
fire_departure_reminder(s, key, now) ==
    [s EXCEPT !.bus = Append(@, EVENT_DEPARTURE_REMINDER)]

\* The result of check_and_notify(route_config, journey_data) at instant now on
\* the state s.  The call is one step: its reads of dt_util.now() (lines 59,
\* 313, 321) return the same minute.
check_and_notify_result(s, route_config, journey_data, now) ==
    LET key == route_key(route_config)
        departure_time_str == journey_data.departure_time
    IN  IF departure_time_str.form = "missing" THEN s
        ELSE IF ~ParsesAsTime(departure_time_str) THEN s
        ELSE
          LET departure_time == departure_time_str.minute
              time_until_departure == departure_time - now
          IN  IF ~in_notification_window(time_until_departure,
                                         route_config.notify_before)
              THEN s
              ELSE
                LET s1 == fire_departure_reminder(s, key, now)
                    s2 == notify_block(s1, delay_condition(route_config, journey_data),
                              key, "delay", EVENT_DELAY_DETECTED, now)
                    s3 == notify_block(s2,
                              disruption_condition(route_config, journey_data),
                              key, "disruption", EVENT_DISRUPTION_DETECTED, now)
                    s4 == notify_block(s3, reroute_condition(route_config, journey_data),
                              key, "reroute", reroute_event_type(journey_data), now)
                IN  s4

NoCall == [made |-> FALSE]

check_and_notify(route_config, journey_data) ==
    LET r == check_and_notify_result(
                 [nr |-> notified_routes, bus |-> <<>>, lf |-> last_fired],
                 route_config, journey_data, clock)
    IN  /\ call' = [made |-> TRUE, route_config |-> route_config,
                    journey_data |-> journey_data, now |-> clock]
        /\ pre_notified' = notified_routes
        /\ pre_fired' = last_fired
        /\ notified_routes' = r.nr
        /\ bus' = r.bus
        /\ last_fired' = r.lf
        /\ UNCHANGED <<clock, connVars, cacheVars, schedVars, laterVars>>

\* The coordinator's poll cycle calls check_and_notify once the previous call
\* has returned (__init__.py line 138).
CheckAndNotify ==
    /\ ~call.made
    /\ \E route_config \in RouteConfigs : \E journey_data \in JourneyData(clock) :
        check_and_notify(route_config, journey_data)

\* The latest call returns to its caller.
Return ==
    /\ call.made
    /\ call' = NoCall
    /\ bus' = <<>>
    /\ pre_notified' = notified_routes
    /\ pre_fired' = last_fired
    /\ UNCHANGED <<clock, notified_routes, last_fired, connVars, cacheVars, schedVars, laterVars>>

\* Time passes between two calls.
Tick ==
    /\ ~call.made
    /\ \E d \in TickSteps :
          /\ clock + d <= MaxTime
          /\ clock' = clock + d
    /\ UNCHANGED <<notified_routes, call, bus, last_fired, pre_notified, pre_fired>>
    /\ UNCHANGED <<connVars, cacheVars, schedVars, laterVars>>

GateNext == CheckAndNotify \/ Return \/ Tick

----------------------------------------------------------------------------
(* notifications.py: check_and_notify calls that overlap.  A call runs       *)
(* without interruption up to an await that suspends; the awaits that        *)
(* suspend are the hass.services.async_call of _send_notifications (lines    *)
(* 146-173), reached when the route has notify_services.                     *)

Tasks == 1..MaxTasks

KindOrder == <<"delay", "disruption", "reroute">>

\* One route, with and without a notification channel.
OverlapRoutes ==
    { [origin |-> "A", destination |-> "B", notify_before |-> DEFAULT_NOTIFY_BEFORE,
       min_delay_threshold |-> DEFAULT_MIN_DELAY, notify_on_delay |-> TRUE,
       notify_on_disruption |-> TRUE, notify_services |-> services] :
      services \in {<<>>, <<"notify.phone">>} }

\* Journeys of a departure inside the notification window.
OverlapJourneys(now) ==
    [departure_time : {IsoTime(now + 20)}, delay : {4, 8},
     delay_reason : {None, "strike"}, missed_connection : {FALSE},
     reroute_recommended : BOOLEAN]

IdleTask == [pc |-> "idle", k |-> 1]

\* What hass.services.async_call does for a channel: it delivers or raises.
DispatchOutcomes == {"delivered", "raises"}

\* Variant: a failed dispatch leaves _send_notifications as an exception.
send_notifications_uncaught(outcome) ==
    [raised |-> outcome = "raises", logged |-> FALSE]

\* lines 153-173: the dispatch to the channel inside try / except Exception;
\* a failure is logged and nothing is raised
send_notifications(outcome) ==
    [raised |-> FALSE, logged |-> outcome = "raises"]

\* lines 76, 83, 90: the condition of a kind
kind_condition(kind, route_config, journey_data) ==
    IF kind = "delay" THEN delay_condition(route_config, journey_data)
    ELSE IF kind = "disruption" THEN disruption_condition(route_config, journey_data)
    ELSE reroute_condition(route_config, journey_data)

\* the event type _fire_delay_event, _fire_disruption_event and
\* _fire_reroute_event put on the bus
kind_event(kind, journey_data) ==
    IF kind = "delay" THEN EVENT_DELAY_DETECTED
    ELSE IF kind = "disruption" THEN EVENT_DISRUPTION_DETECTED
    ELSE reroute_event_type(journey_data)

\* lines 79-80, 86-87, 93-94: fire the kind's event and mark it; dispatch is
\* what became of the message ("none" when the route has no channel)
fire_and_mark(s, task, kind, route_config, journey_data, now, dispatch) ==
    [nr |-> mark_notified(s.nr, route_key(route_config), kind, now),
     fired |-> Append(s.fired, [kind |-> kind, event |-> kind_event(kind, journey_data),
                                task |-> task, at |-> now, dispatch |-> dispatch])]

\* The call runs from the block of kind number k to its next suspension or to
\* its end.  s = [nr, fired] is the state it works on.
RECURSIVE run_blocks(_, _, _, _, _, _)
run_blocks(s, task, k, route_config, journey_data, now) ==
    IF k > Len(KindOrder) THEN [s |-> s, pc |-> "done", k |-> k]
    ELSE LET kind == KindOrder[k]
         IN  IF /\ kind_condition(kind, route_config, journey_data)
                /\ ~was_recently_notified(s.nr, route_key(route_config), kind, now)
             THEN IF route_config.notify_services # <<>>
                  THEN [s |-> s, pc |-> "sending", k |-> k]
                  ELSE run_blocks(fire_and_mark(s, task, kind, route_config,
                                                journey_data, now, "none"),
                                  task, k + 1, route_config, journey_data, now)
             ELSE run_blocks(s, task, k + 1, route_config, journey_data, now)

\* lines 45-73: the call up to the departure reminder
reminder_fired(s, task, now) ==
    [s EXCEPT !.fired = Append(@, [kind |-> "departure_reminder",
                                   event |-> EVENT_DEPARTURE_REMINDER,
                                   task |-> task, at |-> now, dispatch |-> "none"])]

\* A call starts and runs to its first suspension, or to its end.  The calls
\* are made for one route: they carry the same route_config.
OverlapStart(task) ==
    /\ ov_task[task].pc = "idle"
    /\ \E route_config \in OverlapRoutes : \E journey_data \in OverlapJourneys(ov_clock) :
         LET s0 == reminder_fired([nr |-> ov_notified, fired |-> ov_fired], task, ov_clock)
             r == run_blocks(s0, task, 1, route_config, journey_data, ov_clock)
         IN  /\ \A other \in Tasks :
                    ov_task[other].pc # "idle"
                        => ov_task[other].route_config = route_config
             /\ ov_notified' = r.s.nr
             /\ ov_fired' = r.s.fired
             /\ ov_task' = [ov_task EXCEPT ![task] =
                               [pc |-> r.pc, k |-> r.k, route_config |-> route_config,
                                journey_data |-> journey_data]]
    /\ UNCHANGED <<ov_clock, coreVars, notOverlap>>

\* The awaited channel dispatch comes back, delivered or failed (lines
\* 153-173); the call fires the event, marks the kind and runs on.  An
\* exception that left _send_notifications would end the call there.
OverlapResume(task) ==
    /\ ov_task[task].pc = "sending"
    /\ \E outcome \in DispatchOutcomes :
         LET t == ov_task[task]
             sent == send_notifications(outcome)
             s1 == fire_and_mark([nr |-> ov_notified, fired |-> ov_fired], task,
                                 KindOrder[t.k], t.route_config, t.journey_data,
                                 ov_clock, outcome)
             r == run_blocks(s1, task, t.k + 1, t.route_config, t.journey_data, ov_clock)
         IN  IF sent.raised
             THEN /\ ov_task' = [ov_task EXCEPT ![task] = [t EXCEPT !.pc = "raised"]]
                  /\ UNCHANGED <<ov_notified, ov_fired>>
             ELSE /\ ov_notified' = r.s.nr
                  /\ ov_fired' = r.s.fired
                  /\ ov_task' = [ov_task EXCEPT ![task] = [t EXCEPT !.pc = r.pc, !.k = r.k]]
    /\ UNCHANGED <<ov_clock, coreVars, notOverlap>>

\* A minute passes.
OverlapTick ==
    /\ ov_clock < MaxOverlapTime
    /\ ov_clock' = ov_clock + 1
    /\ UNCHANGED <<ov_notified, ov_task, ov_fired, coreVars, notOverlap>>

OverlapNext ==
    \/ \E task \in Tasks : OverlapStart(task)
    \/ \E task \in Tasks : OverlapResume(task)
    \/ OverlapTick

\* The poll cycle awaits each check_and_notify before the next one
\* (__init__.py line 138): a call starts when no other call is suspended.
\* The calls are numbered in the order they are made.
SequentialStart(task) ==
    /\ \A other \in Tasks : ov_task[other].pc # "sending"
    /\ \A other \in Tasks : other < task => ov_task[other].pc # "idle"
    /\ OverlapStart(task)

\* Time passes between two polls.
SequentialTick ==
    /\ \A other \in Tasks : ov_task[other].pc # "sending"
    /\ \E d \in TickSteps :
          /\ ov_clock + d <= MaxTime
          /\ ov_clock' = ov_clock + d
    /\ UNCHANGED <<ov_notified, ov_task, ov_fired, coreVars, notOverlap>>

SequentialNext ==
    \/ \E task \in Tasks : SequentialStart(task)
    \/ \E task \in Tasks : OverlapResume(task)
    \/ SequentialTick

----------------------------------------------------------------------------
(* config_flow.py: NLPublicTransportConfigFlow and                           *)
(* NLPublicTransportOptionsFlow.  The host calls async_step_<step_id> of the *)
(* form last shown with the submitted input, and async_step_<option> of the  *)
(* option picked from a menu.  A route is the record of the keys the checks  *)
(* read: has_legs is CONF_LEGS in route.                                     *)

\* self.search_data = {} read through .get
EmptySearch == [reverse |-> FALSE, return_time |-> None]

\* self.route_data = {}
EmptyRoute ==
    [has_legs |-> FALSE, legs |-> <<>>, reverse |-> FALSE, return_time |-> None,
     line_filter |-> <<>>]

NoEntry == [exists |-> FALSE, routes |-> <<>>]

\* the value of the optional return_time field of the form
ReturnTimes == {None, "17:30:00"}

\* What a station search or a line lookup comes back with.
LookupOutcomes == {"found", "nothing", "raises"}

\* The selection a select_lines form is submitted with: lines 17 and 18.
LineSelections == {<<<<"1", "7">>, <<"1", "8">>>>}

\* One leg as select_leg_stations stores it.
Leg == [origin |-> "8400058", destination |-> "8400621"]

\* Variant: a reverse route is accepted without a return time.
return_time_required_never(data) == FALSE

\* lines 116 and 721: reverse and not return_time
return_time_required(data) ==
    data.reverse /\ (data.return_time = None \/ data.return_time = "")

\* line 620: len(self.current_legs) < 2
need_multiple_legs(current_legs) == Len(current_legs) < 2

\* lines 211-215 and 704-718: the route built from the form's settings
single_route(data) ==
    [has_legs |-> FALSE, legs |-> <<>>, reverse |-> data.reverse,
     return_time |-> data.return_time, line_filter |-> <<>>]

\* lines 624-638: the multi-leg route
multi_leg_route(current_legs) ==
    [has_legs |-> TRUE, legs |-> current_legs, reverse |-> FALSE,
     return_time |-> None, line_filter |-> <<>>]

\* ConfigFlow.__init__ and the first async_step_user(None): the menu
ConfigOpen ==
    /\ cfg_flow = "closed"
    /\ ~cfg_entry.exists
    /\ cfg_flow' = "config"
    /\ cfg_step' = "user"
    /\ cfg_errors' = ""
    /\ cfg_routes' = <<>>
    /\ cfg_search_data' = EmptySearch
    /\ cfg_route_data' = EmptyRoute
    /\ cfg_current_legs' = <<>>
    /\ UNCHANGED <<cfg_entry, coreVars, notConfig>>

\* async_step_add_route(None) and async_step_add_multi_leg_route(None), picked
\* from the menu: the empty form
ConfigPick(option) ==
    /\ cfg_flow = "config"
    /\ cfg_step = "user"
    /\ Len(cfg_routes) < MaxFlowRoutes
    /\ cfg_step' = option
    /\ cfg_errors' = ""
    /\ UNCHANGED <<cfg_flow, cfg_routes, cfg_search_data, cfg_route_data,
                   cfg_current_legs, cfg_entry, coreVars, notConfig>>

\* async_step_add_route(user_input), lines 92-141
ConfigAddRoute(searches_given, reverse, return_time, search) ==
    /\ cfg_flow = "config"
    /\ cfg_step = "add_route"
    /\ LET data == [reverse |-> reverse, return_time |-> return_time]
       IN  IF ~searches_given
           THEN /\ cfg_errors' = "invalid_stop"
                /\ UNCHANGED <<cfg_step, cfg_search_data>>
           ELSE /\ cfg_search_data' = data
                /\ IF return_time_required(data)
                   THEN cfg_errors' = "return_time_required" /\ UNCHANGED cfg_step
                   ELSE IF search = "found"
                   THEN cfg_errors' = "" /\ cfg_step' = "select_stations"
                   ELSE IF search = "nothing"
                   THEN cfg_errors' = "invalid_origin" /\ UNCHANGED cfg_step
                   ELSE cfg_errors' = "cannot_connect" /\ UNCHANGED cfg_step
    /\ UNCHANGED <<cfg_flow, cfg_routes, cfg_route_data, cfg_current_legs, cfg_entry,
                   coreVars, notConfig>>

\* async_step_select_stations(user_input), lines 195-232
ConfigSelectStations(stations_found, lines) ==
    /\ cfg_flow = "config"
    /\ cfg_step = "select_stations"
    /\ IF ~stations_found
       THEN UNCHANGED <<cfg_flow, cfg_step, cfg_errors, cfg_route_data>>
       ELSE /\ cfg_route_data' = single_route(cfg_search_data)
            /\ IF lines = "found"
               THEN cfg_step' = "select_lines" /\ UNCHANGED <<cfg_flow, cfg_errors>>
               ELSE /\ cfg_flow' = "closed"
                    /\ cfg_step' = "abort"
                    /\ cfg_errors' = IF lines = "nothing" THEN "no_journeys_found"
                                     ELSE "cannot_connect"
    /\ UNCHANGED <<cfg_routes, cfg_search_data, cfg_current_legs, cfg_entry,
                   coreVars, notConfig>>

\* async_step_select_lines(user_input), lines 268-279, with the menu that
\* async_step_user(None) shows
ConfigSelectLines(selected_lines) ==
    /\ cfg_flow = "config"
    /\ cfg_step = "select_lines"
    /\ LET route == [cfg_route_data EXCEPT !.line_filter = join_lines(selected_lines)]
       IN  /\ cfg_route_data' = route
           /\ cfg_routes' = Append(cfg_routes, route)
    /\ cfg_step' = "user"
    /\ cfg_errors' = ""
    /\ UNCHANGED <<cfg_flow, cfg_search_data, cfg_current_legs, cfg_entry,
                   coreVars, notConfig>>

\* async_step_add_multi_leg_route(user_input), lines 404-423, with the form
\* async_step_add_leg(None) shows
ConfigAddMultiLegRoute ==
    /\ cfg_flow = "config"
    /\ cfg_step = "add_multi_leg_route"
    /\ cfg_current_legs' = <<>>
    /\ cfg_search_data' = EmptySearch
    /\ cfg_step' = "add_leg"
    /\ cfg_errors' = ""
    /\ UNCHANGED <<cfg_flow, cfg_routes, cfg_route_data, cfg_entry, coreVars, notConfig>>

\* async_step_add_leg(user_input), lines 477-517
ConfigAddLeg(searches_given, search) ==
    /\ cfg_flow = "config"
    /\ cfg_step = "add_leg"
    /\ IF ~searches_given THEN cfg_errors' = "invalid_stop" /\ UNCHANGED cfg_step
       ELSE IF search = "found" THEN cfg_errors' = "" /\ cfg_step' = "select_leg_stations"
       ELSE IF search = "nothing"
       THEN cfg_errors' = "no_stations_found" /\ UNCHANGED cfg_step
       ELSE cfg_errors' = "cannot_connect" /\ UNCHANGED cfg_step
    /\ UNCHANGED <<cfg_flow, cfg_routes, cfg_search_data, cfg_route_data,
                   cfg_current_legs, cfg_entry, coreVars, notConfig>>

\* async_step_select_leg_stations(user_input), lines 553-574, with the menu
\* of async_step_leg_menu
ConfigSelectLegStations(stations_found) ==
    /\ cfg_flow = "config"
    /\ cfg_step = "select_leg_stations"
    /\ IF ~stations_found THEN UNCHANGED <<cfg_step, cfg_current_legs>>
       ELSE /\ Len(cfg_current_legs) < MaxLegs
            /\ cfg_current_legs' = Append(cfg_current_legs, Leg)
            /\ cfg_step' = "leg_menu"
    /\ UNCHANGED <<cfg_flow, cfg_errors, cfg_routes, cfg_search_data, cfg_route_data,
                   cfg_entry, coreVars, notConfig>>

\* async_step_add_leg(None), picked from the leg menu
ConfigPickAddLeg ==
    /\ cfg_flow = "config"
    /\ cfg_step = "leg_menu"
    /\ Len(cfg_current_legs) < MaxLegs
    /\ cfg_step' = "add_leg"
    /\ cfg_errors' = ""
    /\ UNCHANGED <<cfg_flow, cfg_routes, cfg_search_data, cfg_route_data,
                   cfg_current_legs, cfg_entry, coreVars, notConfig>>

\* async_step_finish_multi_leg, lines 614-648, picked from the leg menu
ConfigFinishMultiLeg ==
    /\ cfg_flow = "config"
    /\ cfg_step = "leg_menu"
    /\ IF need_multiple_legs(cfg_current_legs)
       THEN /\ cfg_flow' = "closed"
            /\ cfg_step' = "abort"
            /\ cfg_errors' = "need_multiple_legs"
            /\ UNCHANGED <<cfg_routes, cfg_current_legs, cfg_search_data>>
       ELSE /\ cfg_routes' = Append(cfg_routes, multi_leg_route(cfg_current_legs))
            /\ cfg_current_legs' = <<>>
            /\ cfg_search_data' = EmptySearch
            /\ cfg_step' = "user"
            /\ cfg_errors' = ""
            /\ UNCHANGED cfg_flow
    /\ UNCHANGED <<cfg_route_data, cfg_entry, coreVars, notConfig>>

\* async_step_finish, lines 376-386, picked from the menu
ConfigFinish ==
    /\ cfg_flow = "config"
    /\ cfg_step = "user"
    /\ cfg_flow' = "closed"
    /\ IF cfg_routes = <<>>
       THEN cfg_step' = "abort" /\ cfg_errors' = "no_routes" /\ UNCHANGED cfg_entry
       ELSE /\ cfg_step' = "create_entry"
            /\ cfg_errors' = ""
            /\ cfg_entry' = [exists |-> TRUE, routes |-> cfg_routes]
    /\ UNCHANGED <<cfg_routes, cfg_search_data, cfg_route_data, cfg_current_legs,
                   coreVars, notConfig>>

\* OptionsFlow.__init__ (lines 654-662) and async_step_init: the menu
OptionsOpen ==
    /\ cfg_flow = "closed"
    /\ cfg_entry.exists
    /\ cfg_flow' = "options"
    /\ cfg_step' = "init"
    /\ cfg_errors' = ""
    /\ cfg_routes' = cfg_entry.routes
    /\ cfg_search_data' = EmptySearch
    /\ cfg_route_data' = EmptyRoute
    /\ cfg_current_legs' = <<>>
    /\ UNCHANGED <<cfg_entry, coreVars, notConfig>>

\* OptionsFlow.async_step_add_route(None), picked from the menu
OptionsPickAddRoute ==
    /\ cfg_flow = "options"
    /\ cfg_step = "init"
    /\ Len(cfg_routes) < MaxFlowRoutes
    /\ cfg_step' = "add_route"
    /\ cfg_errors' = ""
    /\ UNCHANGED <<cfg_flow, cfg_routes, cfg_search_data, cfg_route_data,
                   cfg_current_legs, cfg_entry, coreVars, notConfig>>

\* OptionsFlow.async_step_add_route(user_input), lines 697-739
OptionsAddRoute(stops_given, reverse, return_time, lines) ==
    /\ cfg_flow = "options"
    /\ cfg_step = "add_route"
    /\ LET data == [reverse |-> reverse, return_time |-> return_time]
       IN  IF ~stops_given
           THEN /\ cfg_errors' = "invalid_stop"
                /\ UNCHANGED <<cfg_step, cfg_route_data>>
           ELSE /\ cfg_route_data' = single_route(data)
                /\ IF return_time_required(single_route(data))
                   THEN cfg_errors' = "return_time_required" /\ UNCHANGED cfg_step
                   ELSE IF lines = "found"
                   THEN cfg_errors' = "" /\ cfg_step' = "select_lines"
                   ELSE IF lines = "nothing"
                   THEN cfg_errors' = "no_journeys_found" /\ UNCHANGED cfg_step
                   ELSE cfg_errors' = "cannot_connect" /\ UNCHANGED cfg_step
    /\ UNCHANGED <<cfg_flow, cfg_routes, cfg_search_data, cfg_current_legs, cfg_entry,
                   coreVars, notConfig>>

\* OptionsFlow.async_step_select_lines(user_input), lines 797-808
OptionsSelectLines(selected_lines) ==
    /\ cfg_flow = "options"
    /\ cfg_step = "select_lines"
    /\ LET route == [cfg_route_data EXCEPT !.line_filter = join_lines(selected_lines)]
       IN  /\ cfg_route_data' = route
           /\ cfg_routes' = Append(cfg_routes, route)
    /\ cfg_step' = "init"
    /\ cfg_errors' = ""
    /\ UNCHANGED <<cfg_flow, cfg_search_data, cfg_current_legs, cfg_entry,
                   coreVars, notConfig>>

\* OptionsFlow.async_step_remove_route, lines 904-928: picked from the menu
\* and submitted with the index of a listed route
OptionsRemoveRoute(route_to_remove) ==
    /\ cfg_flow = "options"
    /\ cfg_step = "init"
    /\ route_to_remove \in DOMAIN cfg_routes
    /\ cfg_routes' = [i \in 1..(Len(cfg_routes) - 1) |->
                         IF i < route_to_remove THEN cfg_routes[i]
                         ELSE cfg_routes[i + 1]]
    /\ cfg_errors' = ""
    /\ UNCHANGED <<cfg_flow, cfg_step, cfg_search_data, cfg_route_data,
                   cfg_current_legs, cfg_entry, coreVars, notConfig>>

\* OptionsFlow.async_step_finish, lines 930-938
OptionsFinish ==
    /\ cfg_flow = "options"
    /\ cfg_step = "init"
    /\ cfg_flow' = "closed"
    /\ cfg_step' = "create_entry"
    /\ cfg_errors' = ""
    /\ cfg_entry' = [exists |-> TRUE, routes |-> cfg_routes]
    /\ UNCHANGED <<cfg_routes, cfg_search_data, cfg_route_data, cfg_current_legs,
                   coreVars, notConfig>>

ConfigNext ==
    \/ ConfigOpen
    \/ \E option \in {"add_route", "add_multi_leg_route"} : ConfigPick(option)
    \/ \E searches_given \in BOOLEAN : \E reverse \in BOOLEAN :
         \E return_time \in ReturnTimes : \E search \in LookupOutcomes :
            ConfigAddRoute(searches_given, reverse, return_time, search)
    \/ \E stations_found \in BOOLEAN : \E lines \in LookupOutcomes :
            ConfigSelectStations(stations_found, lines)
    \/ \E selected_lines \in LineSelections : ConfigSelectLines(selected_lines)
    \/ ConfigAddMultiLegRoute
    \/ \E searches_given \in BOOLEAN : \E search \in LookupOutcomes :
            ConfigAddLeg(searches_given, search)
    \/ \E stations_found \in BOOLEAN : ConfigSelectLegStations(stations_found)
    \/ ConfigPickAddLeg
    \/ ConfigFinishMultiLeg
    \/ ConfigFinish
    \/ OptionsOpen
    \/ OptionsPickAddRoute
    \/ \E stops_given \in BOOLEAN : \E reverse \in BOOLEAN :
         \E return_time \in ReturnTimes : \E lines \in LookupOutcomes :
            OptionsAddRoute(stops_given, reverse, return_time, lines)
    \/ \E selected_lines \in LineSelections : OptionsSelectLines(selected_lines)
    \/ \E route_to_remove \in 1..MaxFlowRoutes : OptionsRemoveRoute(route_to_remove)
    \/ OptionsFinish

----------------------------------------------------------------------------
(* Specifications, one per component.  Each starts from the state after the *)
(* constructors; the other components stay as constructed.  The components  *)
(* that are a single call (the analyzer, the delay computation) are entered  *)
(* with their arguments.                                                      *)

GateInit ==
    /\ clock = 0
    /\ notified_routes = EmptyDict
    /\ call = NoCall
    /\ bus = <<>>
    /\ last_fired = EmptyDict
    /\ pre_notified = EmptyDict
    /\ pre_fired = EmptyDict
    /\ leg_data = <<>>
    /\ min_transfer_time = DEFAULT_MIN_TRANSFER_TIME
    /\ conn_i = 1
    /\ result = initial_result
    /\ conn_pc = "done"
    /\ stop_code_to_id = EmptyDict
    /\ cache_trips = EmptyDict
    /\ cache_loaded = FALSE
    /\ trips_query = NoQuery
    /\ matching_trips = {}
    /\ sched_stop_times = EmptyDict
    /\ sched_calendar_dates = EmptyDict
    /\ sched_loaded = FALSE
    /\ sched_query = NoScheduleQuery
    /\ departures = <<>>
    /\ cache_fault = "none"
    /\ sched_fault = "none"
    /\ delay_input = [expected |-> MissingInstant, target |-> MissingInstant]
    /\ delay_result = [by |-> "none", minutes |-> 0]
    /\ api_request = Request(TRUE, None, FALSE, 1)
    /\ api_response = OkResponse(<<>>)
    /\ api_now = 0
    /\ api_calls = 0
    /\ api_outcome = "none"
    /\ journey = NoJourney
    /\ prev_journey = NoJourney
    /\ poll_routes = <<>>
    /\ poll_i = 1
    /\ poll_data = {}
    /\ poll_result = "idle"
    /\ poll_published = {}
    /\ ov_clock = 0
    /\ ov_notified = EmptyDict
    /\ ov_task = [task \in Tasks |-> IdleTask]
    /\ ov_fired = <<>>
    /\ cfg_flow = "closed"
    /\ cfg_step = "none"
    /\ cfg_errors = ""
    /\ cfg_routes = <<>>
    /\ cfg_search_data = EmptySearch
    /\ cfg_route_data = EmptyRoute
    /\ cfg_current_legs = <<>>
    /\ cfg_entry = NoEntry

ConnInit ==
    /\ leg_data \in LegLists
    /\ min_transfer_time = DEFAULT_MIN_TRANSFER_TIME
    /\ conn_i = 1
    /\ result = initial_result
    /\ conn_pc = "loop"
    /\ clock = 0
    /\ notified_routes = EmptyDict
    /\ call = NoCall
    /\ bus = <<>>
    /\ last_fired = EmptyDict
    /\ pre_notified = EmptyDict
    /\ pre_fired = EmptyDict
    /\ stop_code_to_id = EmptyDict
    /\ cache_trips = EmptyDict
    /\ cache_loaded = FALSE
    /\ trips_query = NoQuery
    /\ matching_trips = {}
    /\ sched_stop_times = EmptyDict
    /\ sched_calendar_dates = EmptyDict
    /\ sched_loaded = FALSE
    /\ sched_query = NoScheduleQuery
    /\ departures = <<>>
    /\ cache_fault = "none"
    /\ sched_fault = "none"
    /\ delay_input = [expected |-> MissingInstant, target |-> MissingInstant]
    /\ delay_result = [by |-> "none", minutes |-> 0]
    /\ api_request = Request(TRUE, None, FALSE, 1)
    /\ api_response = OkResponse(<<>>)
    /\ api_now = 0
    /\ api_calls = 0
    /\ api_outcome = "none"
    /\ journey = NoJourney
    /\ prev_journey = NoJourney
    /\ poll_routes = <<>>
    /\ poll_i = 1
    /\ poll_data = {}
    /\ poll_result = "idle"
    /\ poll_published = {}
    /\ ov_clock = 0
    /\ ov_notified = EmptyDict
    /\ ov_task = [task \in Tasks |-> IdleTask]
    /\ ov_fired = <<>>
    /\ cfg_flow = "closed"
    /\ cfg_step = "none"
    /\ cfg_errors = ""
    /\ cfg_routes = <<>>
    /\ cfg_search_data = EmptySearch
    /\ cfg_route_data = EmptyRoute
    /\ cfg_current_legs = <<>>
    /\ cfg_entry = NoEntry

CacheInit ==
    /\ stop_code_to_id = EmptyDict
    /\ cache_trips = EmptyDict
    /\ cache_loaded = FALSE
    /\ trips_query = NoQuery
    /\ matching_trips = {}
    /\ clock = 0
    /\ notified_routes = EmptyDict
    /\ call = NoCall
    /\ bus = <<>>
    /\ last_fired = EmptyDict
    /\ pre_notified = EmptyDict
    /\ pre_fired = EmptyDict
    /\ leg_data = <<>>
    /\ min_transfer_time = DEFAULT_MIN_TRANSFER_TIME
    /\ conn_i = 1
    /\ result = initial_result
    /\ conn_pc = "done"
    /\ sched_stop_times = EmptyDict
    /\ sched_calendar_dates = EmptyDict
    /\ sched_loaded = FALSE
    /\ sched_query = NoScheduleQuery
    /\ departures = <<>>
    /\ cache_fault = "none"
    /\ sched_fault = "none"
    /\ delay_input = [expected |-> MissingInstant, target |-> MissingInstant]
    /\ delay_result = [by |-> "none", minutes |-> 0]
    /\ api_request = Request(TRUE, None, FALSE, 1)
    /\ api_response = OkResponse(<<>>)
    /\ api_now = 0
    /\ api_calls = 0
    /\ api_outcome = "none"
    /\ journey = NoJourney
    /\ prev_journey = NoJourney
    /\ poll_routes = <<>>
    /\ poll_i = 1
    /\ poll_data = {}
    /\ poll_result = "idle"
    /\ poll_published = {}
    /\ ov_clock = 0
    /\ ov_notified = EmptyDict
    /\ ov_task = [task \in Tasks |-> IdleTask]
    /\ ov_fired = <<>>
    /\ cfg_flow = "closed"
    /\ cfg_step = "none"
    /\ cfg_errors = ""
    /\ cfg_routes = <<>>
    /\ cfg_search_data = EmptySearch
    /\ cfg_route_data = EmptyRoute
    /\ cfg_current_legs = <<>>
    /\ cfg_entry = NoEntry

SchedInit ==
    /\ sched_stop_times = EmptyDict
    /\ sched_calendar_dates = EmptyDict
    /\ sched_loaded = FALSE
    /\ sched_query = NoScheduleQuery
    /\ departures = <<>>
    /\ clock = 0
    /\ notified_routes = EmptyDict
    /\ call = NoCall
    /\ bus = <<>>
    /\ last_fired = EmptyDict
    /\ pre_notified = EmptyDict
    /\ pre_fired = EmptyDict
    /\ leg_data = <<>>
    /\ min_transfer_time = DEFAULT_MIN_TRANSFER_TIME
    /\ conn_i = 1
    /\ result = initial_result
    /\ conn_pc = "done"
    /\ stop_code_to_id = EmptyDict
    /\ cache_trips = EmptyDict
    /\ cache_loaded = FALSE
    /\ trips_query = NoQuery
    /\ matching_trips = {}
    /\ cache_fault = "none"
    /\ sched_fault = "none"
    /\ delay_input = [expected |-> MissingInstant, target |-> MissingInstant]
    /\ delay_result = [by |-> "none", minutes |-> 0]
    /\ api_request = Request(TRUE, None, FALSE, 1)
    /\ api_response = OkResponse(<<>>)
    /\ api_now = 0
    /\ api_calls = 0
    /\ api_outcome = "none"
    /\ journey = NoJourney
    /\ prev_journey = NoJourney
    /\ poll_routes = <<>>
    /\ poll_i = 1
    /\ poll_data = {}
    /\ poll_result = "idle"
    /\ poll_published = {}
    /\ ov_clock = 0
    /\ ov_notified = EmptyDict
    /\ ov_task = [task \in Tasks |-> IdleTask]
    /\ ov_fired = <<>>
    /\ cfg_flow = "closed"
    /\ cfg_step = "none"
    /\ cfg_errors = ""
    /\ cfg_routes = <<>>
    /\ cfg_search_data = EmptySearch
    /\ cfg_route_data = EmptyRoute
    /\ cfg_current_legs = <<>>
    /\ cfg_entry = NoEntry

ArchiveInit ==
    /\ cache_fault = "none"
    /\ sched_fault = "none"
    /\ clock = 0
    /\ notified_routes = EmptyDict
    /\ call = NoCall
    /\ bus = <<>>
    /\ last_fired = EmptyDict
    /\ pre_notified = EmptyDict
    /\ pre_fired = EmptyDict
    /\ leg_data = <<>>
    /\ min_transfer_time = DEFAULT_MIN_TRANSFER_TIME
    /\ conn_i = 1
    /\ result = initial_result
    /\ conn_pc = "done"
    /\ stop_code_to_id = EmptyDict
    /\ cache_trips = EmptyDict
    /\ cache_loaded = FALSE
    /\ trips_query = NoQuery
    /\ matching_trips = {}
    /\ sched_stop_times = EmptyDict
    /\ sched_calendar_dates = EmptyDict
    /\ sched_loaded = FALSE
    /\ sched_query = NoScheduleQuery
    /\ departures = <<>>
    /\ delay_input = [expected |-> MissingInstant, target |-> MissingInstant]
    /\ delay_result = [by |-> "none", minutes |-> 0]
    /\ api_request = Request(TRUE, None, FALSE, 1)
    /\ api_response = OkResponse(<<>>)
    /\ api_now = 0
    /\ api_calls = 0
    /\ api_outcome = "none"
    /\ journey = NoJourney
    /\ prev_journey = NoJourney
    /\ poll_routes = <<>>
    /\ poll_i = 1
    /\ poll_data = {}
    /\ poll_result = "idle"
    /\ poll_published = {}
    /\ ov_clock = 0
    /\ ov_notified = EmptyDict
    /\ ov_task = [task \in Tasks |-> IdleTask]
    /\ ov_fired = <<>>
    /\ cfg_flow = "closed"
    /\ cfg_step = "none"
    /\ cfg_errors = ""
    /\ cfg_routes = <<>>
    /\ cfg_search_data = EmptySearch
    /\ cfg_route_data = EmptyRoute
    /\ cfg_current_legs = <<>>
    /\ cfg_entry = NoEntry

DelayInit ==
    /\ delay_input \in [expected : FeedInstants, target : FeedInstants]
    /\ delay_result = [by |-> "none", minutes |-> 0]
    /\ clock = 0
    /\ notified_routes = EmptyDict
    /\ call = NoCall
    /\ bus = <<>>
    /\ last_fired = EmptyDict
    /\ pre_notified = EmptyDict
    /\ pre_fired = EmptyDict
    /\ leg_data = <<>>
    /\ min_transfer_time = DEFAULT_MIN_TRANSFER_TIME
    /\ conn_i = 1
    /\ result = initial_result
    /\ conn_pc = "done"
    /\ stop_code_to_id = EmptyDict
    /\ cache_trips = EmptyDict
    /\ cache_loaded = FALSE
    /\ trips_query = NoQuery
    /\ matching_trips = {}
    /\ sched_stop_times = EmptyDict
    /\ sched_calendar_dates = EmptyDict
    /\ sched_loaded = FALSE
    /\ sched_query = NoScheduleQuery
    /\ departures = <<>>
    /\ cache_fault = "none"
    /\ sched_fault = "none"
    /\ api_request = Request(TRUE, None, FALSE, 1)
    /\ api_response = OkResponse(<<>>)
    /\ api_now = 0
    /\ api_calls = 0
    /\ api_outcome = "none"
    /\ journey = NoJourney
    /\ prev_journey = NoJourney
    /\ poll_routes = <<>>
    /\ poll_i = 1
    /\ poll_data = {}
    /\ poll_result = "idle"
    /\ poll_published = {}
    /\ ov_clock = 0
    /\ ov_notified = EmptyDict
    /\ ov_task = [task \in Tasks |-> IdleTask]
    /\ ov_fired = <<>>
    /\ cfg_flow = "closed"
    /\ cfg_step = "none"
    /\ cfg_errors = ""
    /\ cfg_routes = <<>>
    /\ cfg_search_data = EmptySearch
    /\ cfg_route_data = EmptyRoute
    /\ cfg_current_legs = <<>>
    /\ cfg_entry = NoEntry

ApiInit ==
    /\ \/ /\ api_request \in OvapiRequests
          /\ api_response \in {OkResponse(p) : p \in PassLists} \cup FailedResponses
       \/ /\ api_request \in NsRequests
          /\ api_response \in {OkResponse(p) : p \in NsDepartureLists} \cup FailedResponses
       \/ /\ api_request \in NoKeyRequests
          /\ api_response \in FailedResponses
    /\ api_now = 0
    /\ api_calls = 0
    /\ api_outcome = "none"
    /\ journey = NoJourney
    /\ prev_journey = NoJourney
    /\ clock = 0
    /\ notified_routes = EmptyDict
    /\ call = NoCall
    /\ bus = <<>>
    /\ last_fired = EmptyDict
    /\ pre_notified = EmptyDict
    /\ pre_fired = EmptyDict
    /\ leg_data = <<>>
    /\ min_transfer_time = DEFAULT_MIN_TRANSFER_TIME
    /\ conn_i = 1
    /\ result = initial_result
    /\ conn_pc = "done"
    /\ stop_code_to_id = EmptyDict
    /\ cache_trips = EmptyDict
    /\ cache_loaded = FALSE
    /\ trips_query = NoQuery
    /\ matching_trips = {}
    /\ sched_stop_times = EmptyDict
    /\ sched_calendar_dates = EmptyDict
    /\ sched_loaded = FALSE
    /\ sched_query = NoScheduleQuery
    /\ departures = <<>>
    /\ cache_fault = "none"
    /\ sched_fault = "none"
    /\ delay_input = [expected |-> MissingInstant, target |-> MissingInstant]
    /\ delay_result = [by |-> "none", minutes |-> 0]
    /\ poll_routes = <<>>
    /\ poll_i = 1
    /\ poll_data = {}
    /\ poll_result = "idle"
    /\ poll_published = {}
    /\ ov_clock = 0
    /\ ov_notified = EmptyDict
    /\ ov_task = [task \in Tasks |-> IdleTask]
    /\ ov_fired = <<>>
    /\ cfg_flow = "closed"
    /\ cfg_step = "none"
    /\ cfg_errors = ""
    /\ cfg_routes = <<>>
    /\ cfg_search_data = EmptySearch
    /\ cfg_route_data = EmptyRoute
    /\ cfg_current_legs = <<>>
    /\ cfg_entry = NoEntry

PollInit ==
    /\ poll_routes \in PollRouteLists
    /\ poll_i = 1
    /\ poll_data = {}
    /\ poll_result = "running"
    /\ poll_published = {}
    /\ clock = 0
    /\ notified_routes = EmptyDict
    /\ call = NoCall
    /\ bus = <<>>
    /\ last_fired = EmptyDict
    /\ pre_notified = EmptyDict
    /\ pre_fired = EmptyDict
    /\ leg_data = <<>>
    /\ min_transfer_time = DEFAULT_MIN_TRANSFER_TIME
    /\ conn_i = 1
    /\ result = initial_result
    /\ conn_pc = "done"
    /\ stop_code_to_id = EmptyDict
    /\ cache_trips = EmptyDict
    /\ cache_loaded = FALSE
    /\ trips_query = NoQuery
    /\ matching_trips = {}
    /\ sched_stop_times = EmptyDict
    /\ sched_calendar_dates = EmptyDict
    /\ sched_loaded = FALSE
    /\ sched_query = NoScheduleQuery
    /\ departures = <<>>
    /\ cache_fault = "none"
    /\ sched_fault = "none"
    /\ delay_input = [expected |-> MissingInstant, target |-> MissingInstant]
    /\ delay_result = [by |-> "none", minutes |-> 0]
    /\ api_request = Request(TRUE, None, FALSE, 1)
    /\ api_response = OkResponse(<<>>)
    /\ api_now = 0
    /\ api_calls = 0
    /\ api_outcome = "none"
    /\ journey = NoJourney
    /\ prev_journey = NoJourney
    /\ ov_clock = 0
    /\ ov_notified = EmptyDict
    /\ ov_task = [task \in Tasks |-> IdleTask]
    /\ ov_fired = <<>>
    /\ cfg_flow = "closed"
    /\ cfg_step = "none"
    /\ cfg_errors = ""
    /\ cfg_routes = <<>>
    /\ cfg_search_data = EmptySearch
    /\ cfg_route_data = EmptyRoute
    /\ cfg_current_legs = <<>>
    /\ cfg_entry = NoEntry

OverlapInit ==
    /\ ov_clock = 0
    /\ ov_notified = EmptyDict
    /\ ov_task = [task \in Tasks |-> IdleTask]
    /\ ov_fired = <<>>
    /\ clock = 0
    /\ notified_routes = EmptyDict
    /\ call = NoCall
    /\ bus = <<>>
    /\ last_fired = EmptyDict
    /\ pre_notified = EmptyDict
    /\ pre_fired = EmptyDict
    /\ leg_data = <<>>
    /\ min_transfer_time = DEFAULT_MIN_TRANSFER_TIME
    /\ conn_i = 1
    /\ result = initial_result
    /\ conn_pc = "done"
    /\ stop_code_to_id = EmptyDict
    /\ cache_trips = EmptyDict
    /\ cache_loaded = FALSE
    /\ trips_query = NoQuery
    /\ matching_trips = {}
    /\ sched_stop_times = EmptyDict
    /\ sched_calendar_dates = EmptyDict
    /\ sched_loaded = FALSE
    /\ sched_query = NoScheduleQuery
    /\ departures = <<>>
    /\ cache_fault = "none"
    /\ sched_fault = "none"
    /\ delay_input = [expected |-> MissingInstant, target |-> MissingInstant]
    /\ delay_result = [by |-> "none", minutes |-> 0]
    /\ api_request = Request(TRUE, None, FALSE, 1)
    /\ api_response = OkResponse(<<>>)
    /\ api_now = 0
    /\ api_calls = 0
    /\ api_outcome = "none"
    /\ journey = NoJourney
    /\ prev_journey = NoJourney
    /\ poll_routes = <<>>
    /\ poll_i = 1
    /\ poll_data = {}
    /\ poll_result = "idle"
    /\ poll_published = {}
    /\ cfg_flow = "closed"
    /\ cfg_step = "none"
    /\ cfg_errors = ""
    /\ cfg_routes = <<>>
    /\ cfg_search_data = EmptySearch
    /\ cfg_route_data = EmptyRoute
    /\ cfg_current_legs = <<>>
    /\ cfg_entry = NoEntry

FilterInit ==
    /\ api_request \in FilterRequests
    /\ api_response \in {OkResponse(p) : p \in FilterPassLists}
    /\ api_now = 0
    /\ api_calls = 0
    /\ api_outcome = "none"
    /\ journey = NoJourney
    /\ prev_journey = NoJourney
    /\ clock = 0
    /\ notified_routes = EmptyDict
    /\ call = NoCall
    /\ bus = <<>>
    /\ last_fired = EmptyDict
    /\ pre_notified = EmptyDict
    /\ pre_fired = EmptyDict
    /\ leg_data = <<>>
    /\ min_transfer_time = DEFAULT_MIN_TRANSFER_TIME
    /\ conn_i = 1
    /\ result = initial_result
    /\ conn_pc = "done"
    /\ stop_code_to_id = EmptyDict
    /\ cache_trips = EmptyDict
    /\ cache_loaded = FALSE
    /\ trips_query = NoQuery
    /\ matching_trips = {}
    /\ sched_stop_times = EmptyDict
    /\ sched_calendar_dates = EmptyDict
    /\ sched_loaded = FALSE
    /\ sched_query = NoScheduleQuery
    /\ departures = <<>>
    /\ cache_fault = "none"
    /\ sched_fault = "none"
    /\ delay_input = [expected |-> MissingInstant, target |-> MissingInstant]
    /\ delay_result = [by |-> "none", minutes |-> 0]
    /\ poll_routes = <<>>
    /\ poll_i = 1
    /\ poll_data = {}
    /\ poll_result = "idle"
    /\ poll_published = {}
    /\ ov_clock = 0
    /\ ov_notified = EmptyDict
    /\ ov_task = [task \in Tasks |-> IdleTask]
    /\ ov_fired = <<>>
    /\ cfg_flow = "closed"
    /\ cfg_step = "none"
    /\ cfg_errors = ""
    /\ cfg_routes = <<>>
    /\ cfg_search_data = EmptySearch
    /\ cfg_route_data = EmptyRoute
    /\ cfg_current_legs = <<>>
    /\ cfg_entry = NoEntry

SequentialInit ==
    /\ ov_clock = 0
    /\ ov_notified = EmptyDict
    /\ ov_task = [task \in Tasks |-> IdleTask]
    /\ ov_fired = <<>>
    /\ clock = 0
    /\ notified_routes = EmptyDict
    /\ call = NoCall
    /\ bus = <<>>
    /\ last_fired = EmptyDict
    /\ pre_notified = EmptyDict
    /\ pre_fired = EmptyDict
    /\ leg_data = <<>>
    /\ min_transfer_time = DEFAULT_MIN_TRANSFER_TIME
    /\ conn_i = 1
    /\ result = initial_result
    /\ conn_pc = "done"
    /\ stop_code_to_id = EmptyDict
    /\ cache_trips = EmptyDict
    /\ cache_loaded = FALSE
    /\ trips_query = NoQuery
    /\ matching_trips = {}
    /\ sched_stop_times = EmptyDict
    /\ sched_calendar_dates = EmptyDict
    /\ sched_loaded = FALSE
    /\ sched_query = NoScheduleQuery
    /\ departures = <<>>
    /\ cache_fault = "none"
    /\ sched_fault = "none"
    /\ delay_input = [expected |-> MissingInstant, target |-> MissingInstant]
    /\ delay_result = [by |-> "none", minutes |-> 0]
    /\ api_request = Request(TRUE, None, FALSE, 1)
    /\ api_response = OkResponse(<<>>)
    /\ api_now = 0
    /\ api_calls = 0
    /\ api_outcome = "none"
    /\ journey = NoJourney
    /\ prev_journey = NoJourney
    /\ poll_routes = <<>>
    /\ poll_i = 1
    /\ poll_data = {}
    /\ poll_result = "idle"
    /\ poll_published = {}
    /\ cfg_flow = "closed"
    /\ cfg_step = "none"
    /\ cfg_errors = ""
    /\ cfg_routes = <<>>
    /\ cfg_search_data = EmptySearch
    /\ cfg_route_data = EmptyRoute
    /\ cfg_current_legs = <<>>
    /\ cfg_entry = NoEntry

ConfigInit ==
    /\ cfg_flow = "closed"
    /\ cfg_step = "none"
    /\ cfg_errors = ""
    /\ cfg_routes = <<>>
    /\ cfg_search_data = EmptySearch
    /\ cfg_route_data = EmptyRoute
    /\ cfg_current_legs = <<>>
    /\ cfg_entry = NoEntry
    /\ clock = 0
    /\ notified_routes = EmptyDict
    /\ call = NoCall
    /\ bus = <<>>
    /\ last_fired = EmptyDict
    /\ pre_notified = EmptyDict
    /\ pre_fired = EmptyDict
    /\ leg_data = <<>>
    /\ min_transfer_time = DEFAULT_MIN_TRANSFER_TIME
    /\ conn_i = 1
    /\ result = initial_result
    /\ conn_pc = "done"
    /\ stop_code_to_id = EmptyDict
    /\ cache_trips = EmptyDict
    /\ cache_loaded = FALSE
    /\ trips_query = NoQuery
    /\ matching_trips = {}
    /\ sched_stop_times = EmptyDict
    /\ sched_calendar_dates = EmptyDict
    /\ sched_loaded = FALSE
    /\ sched_query = NoScheduleQuery
    /\ departures = <<>>
    /\ cache_fault = "none"
    /\ sched_fault = "none"
    /\ delay_input = [expected |-> MissingInstant, target |-> MissingInstant]
    /\ delay_result = [by |-> "none", minutes |-> 0]
    /\ api_request = Request(TRUE, None, FALSE, 1)
    /\ api_response = OkResponse(<<>>)
    /\ api_now = 0
    /\ api_calls = 0
    /\ api_outcome = "none"
    /\ journey = NoJourney
    /\ prev_journey = NoJourney
    /\ poll_routes = <<>>
    /\ poll_i = 1
    /\ poll_data = {}
    /\ poll_result = "idle"
    /\ poll_published = {}
    /\ ov_clock = 0
    /\ ov_notified = EmptyDict
    /\ ov_task = [task \in Tasks |-> IdleTask]
    /\ ov_fired = <<>>

SpecGate == GateInit /\ [][GateNext]_vars

SpecConn == ConnInit /\ [][ConnNext]_vars

SpecCache == CacheInit /\ [][CacheNext]_vars

SpecSched == SchedInit /\ [][SchedNext]_vars

SpecArchive == ArchiveInit /\ [][ArchiveNext]_vars

SpecDelay == DelayInit /\ [][DelayNext]_vars

SpecApi == ApiInit /\ [][ApiNext]_vars

SpecPoll == PollInit /\ [][PollNext]_vars

SpecOverlap == OverlapInit /\ [][OverlapNext]_vars

SpecFilter == FilterInit /\ [][ApiNext]_vars

SpecSequential == SequentialInit /\ [][SequentialNext]_vars

SpecConfig == ConfigInit /\ [][ConfigNext]_vars

----------------------------------------------------------------------------
(* Notification gate: vocabulary of the claims *)

Kinds == {"delay", "disruption", "reroute"}

\* The bus event types that belong to a kind.
KindEvents(kind) ==
    CASE kind = "delay" -> {EVENT_DELAY_DETECTED}
      [] kind = "disruption" -> {EVENT_DISRUPTION_DETECTED}
      [] kind = "reroute" -> {EVENT_REROUTE_SUGGESTED, EVENT_MISSED_CONNECTION}

\* The latest call fired an event of this type / of this kind.
Fired(event_type) == \E i \in DOMAIN bus : bus[i] = event_type

FiredKind(kind) == \E i \in DOMAIN bus : bus[i] \in KindEvents(kind)

\* How often the latest call fired this event type.
TimesFired(event_type) == Cardinality({i \in DOMAIN bus : bus[i] = event_type})

\* The route key of the latest call.
CallKey == route_key(call.route_config)

HasEntry(state, key, kind) == key \in DOMAIN state /\ kind \in DOMAIN state[key]

\* The latest call's minutes until departure lie in (0, notify_lead_minutes].
InWindow ==
    /\ call.made
    /\ call.journey_data.departure_time.form = "iso"
    /\ call.journey_data.departure_time.minute - call.now > 0
    /\ call.journey_data.departure_time.minute - call.now
           <= call.route_config.notify_before

\* An event of this kind was fired for this key less than 10 minutes before
\* the latest call.
FiredWithin10(key, kind) ==
    /\ HasEntry(pre_fired, key, kind)
    /\ call.now - pre_fired[key][kind] < 10

\* The last-fired instant a NotificationState holds for (key, kind); -1 if none.
LastInstant(state, key, kind) ==
    IF HasEntry(state, key, kind) THEN state[key][kind] ELSE -1

----------------------------------------------------------------------------
\* The scenario's route and journey: lead 30, threshold 5, delay 8, no other
\* trigger.
C1_Scenario ==
    /\ call.made
    /\ call.route_config.notify_before = 30
    /\ call.route_config.min_delay_threshold = 5
    /\ call.route_config.notify_on_delay
    /\ call.journey_data.delay = 8
    /\ call.journey_data.delay_reason = None
    /\ ~call.journey_data.missed_connection
    /\ ~call.journey_data.reroute_recommended

----------------------------------------------------------------------------
(* C1: the same (route, kind) is never fired at two instants less than 10    *)
(* minutes apart; in the scenario (lead 30, departure in 20 minutes, delay 8  *)
(* against threshold 5, nothing fired before) the call fires the reminder and *)
(* the delay event, and a call 2 minutes later fires only the reminder.       *)

C1_CoolDown ==
    /\ call.made =>
          \A kind \in Kinds :
              FiredKind(kind) /\ HasEntry(pre_fired, CallKey, kind)
                  => call.now - pre_fired[CallKey][kind] >= 10
    /\ C1_Scenario /\ call.journey_data.departure_time = IsoTime(call.now + 20)
          /\ ~HasEntry(pre_fired, CallKey, "delay")
          => bus = <<EVENT_DEPARTURE_REMINDER, EVENT_DELAY_DETECTED>>
    /\ C1_Scenario /\ call.journey_data.departure_time = IsoTime(call.now + 18)
          /\ HasEntry(pre_fired, CallKey, "delay")
          /\ pre_fired[CallKey]["delay"] = call.now - 2
          => bus = <<EVENT_DEPARTURE_REMINDER>>

C1_Witness ==
    /\ C1_Scenario
    /\ call.journey_data.departure_time = IsoTime(call.now + 18)
    /\ HasEntry(pre_fired, CallKey, "delay")
    /\ pre_fired[CallKey]["delay"] = call.now - 2
    /\ bus = <<EVENT_DEPARTURE_REMINDER>>

----------------------------------------------------------------------------
(* C3: a call whose minutes until departure are not in (0, lead], or whose   *)
(* departure_time is missing or unparseable, fires no event and leaves the    *)
(* NotificationState unchanged.                                               *)

C3_OutsideWindowSilent ==
    call.made /\ ~InWindow => bus = <<>> /\ notified_routes = pre_notified

\* Already departed (0 minutes left) with every trigger on, after an earlier
\* notification of the same route.
C3_Witness ==
    /\ call.made
    /\ call.journey_data.departure_time = IsoTime(call.now)
    /\ call.route_config.notify_on_delay
    /\ call.route_config.notify_on_disruption
    /\ call.journey_data.delay = 8
    /\ call.journey_data.delay_reason # None
    /\ call.journey_data.missed_connection
    /\ bus = <<>>
    /\ HasEntry(notified_routes, CallKey, "delay")
    /\ call.now - notified_routes[CallKey]["delay"] >= 10

----------------------------------------------------------------------------
(* C4: inside the window a delay event is fired iff notify_on_delay, delay   *)
(* >= threshold and no delay event fired for the route in the last 10 minutes *)

C4_DelayIff ==
    InWindow =>
        ( Fired(EVENT_DELAY_DETECTED)
            <=> /\ call.route_config.notify_on_delay
                /\ call.journey_data.delay >= call.route_config.min_delay_threshold
                /\ ~FiredWithin10(CallKey, "delay") )

\* A delay exactly equal to the threshold fires.
C4_Witness ==
    /\ InWindow
    /\ call.journey_data.delay = call.route_config.min_delay_threshold
    /\ Fired(EVENT_DELAY_DETECTED)

----------------------------------------------------------------------------
(* C5: inside the window a reroute-class event is fired iff missed_connection *)
(* or reroute_recommended, and no reroute-class event fired for the route in  *)
(* the last 10 minutes, whatever the toggles; it is missed_connection when    *)
(* missed_connection is true and reroute_suggested otherwise.                 *)

C5_RerouteIff ==
    InWindow =>
        /\ FiredKind("reroute")
              <=> /\ ( call.journey_data.missed_connection
                         \/ call.journey_data.reroute_recommended )
                  /\ ~FiredWithin10(CallKey, "reroute")
        /\ Fired(EVENT_MISSED_CONNECTION) => call.journey_data.missed_connection
        /\ Fired(EVENT_REROUTE_SUGGESTED) => ~call.journey_data.missed_connection
        /\ TimesFired(EVENT_MISSED_CONNECTION) + TimesFired(EVENT_REROUTE_SUGGESTED) <= 1

\* Both toggles off, a reroute recommendation without a missed connection.
C5_Witness ==
    /\ InWindow
    /\ ~call.route_config.notify_on_delay
    /\ ~call.route_config.notify_on_disruption
    /\ call.journey_data.reroute_recommended
    /\ ~call.journey_data.missed_connection
    /\ Fired(EVENT_REROUTE_SUGGESTED)
    /\ HasEntry(pre_fired, CallKey, "reroute")

----------------------------------------------------------------------------
(* C6: every call inside the window emits a departure_reminder, however       *)
(* recently one was emitted for the route; the reminder is never recorded in  *)
(* the NotificationState.                                                     *)

C6_ReminderAlways ==
    /\ InWindow => bus # <<>> /\ bus[1] = EVENT_DEPARTURE_REMINDER
                      /\ TimesFired(EVENT_DEPARTURE_REMINDER) = 1
    /\ \A key \in DOMAIN notified_routes : DOMAIN notified_routes[key] \subseteq Kinds

\* A call 2 minutes after a call of the same route that was inside the window
\* (it fired a delay event, so it emitted a reminder too).
C6_Witness ==
    /\ InWindow
    /\ HasEntry(pre_fired, CallKey, "delay")
    /\ pre_fired[CallKey]["delay"] = call.now - 2
    /\ Fired(EVENT_DEPARTURE_REMINDER)
    /\ ~Fired(EVENT_DELAY_DETECTED)

----------------------------------------------------------------------------
(* C7: after a call at instant now, NotificationState[route_key][kind] = now  *)
(* for exactly the kinds the call fired; every other entry, of this route and *)
(* of the other routes, is as it was before the call.                         *)

C7_Frame ==
    call.made =>
        LET call_key == CallKey
        IN  \A key \in {call_key} \cup DOMAIN notified_routes \cup DOMAIN pre_notified :
                \A kind \in Kinds \cup {"departure_reminder"} :
                    LastInstant(notified_routes, key, kind)
                        = IF key = call_key /\ kind \in Kinds /\ FiredKind(kind)
                          THEN call.now
                          ELSE LastInstant(pre_notified, key, kind)

\* The call fires delay only: the route's older disruption entry, its
\* suppressed reroute entry and the other route's entry stay.
C7_Witness ==
    /\ call.made
    /\ CallKey = "A_B"
    /\ bus = <<EVENT_DEPARTURE_REMINDER, EVENT_DELAY_DETECTED>>
    /\ call.journey_data.reroute_recommended
    /\ HasEntry(notified_routes, "A_B", "disruption")
    /\ HasEntry(notified_routes, "A_B", "reroute")
    /\ notified_routes["A_B"]["reroute"] < call.now
    /\ notified_routes["A_B"]["delay"] = call.now
    /\ HasEntry(notified_routes, "C_D", "reroute")
    /\ notified_routes["C_D"]["reroute"] < call.now

----------------------------------------------------------------------------
(* Connection analyzer: vocabulary of the claims *)

\* The pair (i, i + 1) of the analyzed legs has both instants and the next leg
\* departs before the current leg arrives.
NegativeTransfer(i) ==
    /\ leg_data[i].arrival_time.form = "iso"
    /\ leg_data[i + 1].departure_time.form = "iso"
    /\ leg_data[i + 1].departure_time.second < leg_data[i].arrival_time.second

----------------------------------------------------------------------------
(* C2: whenever some adjacent leg pair has a negative transfer time, the      *)
(* status returned at the end of the pass is missed, whatever the delays and  *)
(* transfer times of that pair and of the later pairs.                        *)

C2_MissedIsFinal ==
    conn_pc = "done" /\ (\E i \in 1..(Len(leg_data) - 1) : NegativeTransfer(i))
        => result.connection_status = "missed"

----------------------------------------------------------------------------
(* Timetable index, trips_between: vocabulary of the claims *)

\* The internal stop id a stop code stands for.
IdOfCode(stop_code) ==
    IF stop_code \in DOMAIN stop_code_to_id THEN stop_code_to_id[stop_code]
    ELSE stop_code

\* The positions of a stop in a trip's stop sequence.
Positions(trip_id, stop_id) ==
    {i \in DOMAIN cache_trips[trip_id] : cache_trips[trip_id][i].stop_id = stop_id}

----------------------------------------------------------------------------
(* C8: get_trips_between_stops(a, b) returns only trips that hold both stops  *)
(* (after mapping each code to its stop id, or to itself when unmapped) with  *)
(* the origin's sequence number strictly less than the destination's; it is   *)
(* empty when a = b, and excludes every trip in which a appears after b.      *)

C8_TripsBetween ==
    trips_query.made =>
        LET a == IdOfCode(trips_query.origin)
            b == IdOfCode(trips_query.destination)
        IN  /\ \A trip_id \in matching_trips :
                  /\ trip_id \in DOMAIN cache_trips
                  /\ \E i \in Positions(trip_id, a) : \E j \in Positions(trip_id, b) :
                        cache_trips[trip_id][i].sequence
                            < cache_trips[trip_id][j].sequence
            /\ trips_query.origin = trips_query.destination => matching_trips = {}
            /\ \A trip_id \in DOMAIN cache_trips :
                  ( /\ Positions(trip_id, a) # {}
                    /\ Positions(trip_id, b) # {}
                    /\ \A i \in Positions(trip_id, a) : \A j \in Positions(trip_id, b) :
                          cache_trips[trip_id][i].sequence
                              > cache_trips[trip_id][j].sequence )
                  => trip_id \notin matching_trips

\* One trip runs from a to b and is returned, another runs from b to a and is
\* not; the origin code is unmapped, the destination code is mapped.
C8_Witness ==
    /\ trips_query.made
    /\ trips_query.origin = "s1"
    /\ trips_query.destination = "c1"
    /\ "s1" \notin DOMAIN stop_code_to_id
    /\ IdOfCode("c1") = "s2"
    /\ matching_trips = {"t1"}
    /\ "t2" \in DOMAIN cache_trips
    /\ Positions("t2", "s1") # {}
    /\ Positions("t2", "s2") # {}
    /\ \A i \in Positions("t2", "s1") : \A j \in Positions("t2", "s2") :
          cache_trips["t2"][i].sequence > cache_trips["t2"][j].sequence

----------------------------------------------------------------------------
(* Timetable index, scheduled_departures: vocabulary of the claims *)

\* The stop_times rows of the stop the latest get_schedule call asked for.
QueryRows ==
    IF sched_query.stop_id \in DOMAIN sched_stop_times
    THEN sched_stop_times[sched_query.stop_id] ELSE <<>>

\* The exception calendar holds an "added" entry for (service, date).
HasAddedEntry(service_id, date_str) ==
    /\ service_id \in DOMAIN sched_calendar_dates
    /\ date_str \in DOMAIN sched_calendar_dates[service_id]
    /\ sched_calendar_dates[service_id][date_str] = "1"

\* A day of January 2024 as calendar_dates.txt writes it.
DateString(day) == IF day = 1 THEN "20240101" ELSE "20240102"

\* The trip has a service id with an "added" entry on the day.
TripRuns(trip_id, day) ==
    /\ trip_id \in DOMAIN sched_trips
    /\ sched_trips[trip_id].service_id # ""
    /\ HasAddedEntry(sched_trips[trip_id].service_id, DateString(day))

\* The route short name of a trip; empty when unknown.
ShortName(trip_id) ==
    IF trip_id \in DOMAIN sched_trips
          /\ sched_trips[trip_id].route_id \in DOMAIN sched_routes
    THEN sched_routes[sched_trips[trip_id].route_id].route_short_name
    ELSE <<>>

\* a <= b for strings, character by character.
LexLeq(a, b) ==
    \/ \E n \in 0..Len(a) :
          /\ n < Len(b)
          /\ SubSeq(a, 1, n) = SubSeq(b, 1, n)
          /\ (n = Len(a) \/ a[n + 1] < b[n + 1])
    \/ a = b

Contains(text, sub) ==
    \E i \in 0..(Len(text) - Len(sub)) :
        \A k \in 1..Len(sub) : text[i + k] = sub[k]

\* Row i of the stop satisfies the filters of the latest query.
Qualifies(i) ==
    /\ LexLeq(sched_query.start_time, QueryRows[i].departure_time)
    /\ LexLeq(QueryRows[i].departure_time, sched_query.end_time)
    /\ TripRuns(QueryRows[i].trip_id, sched_query.target_date)
    /\ ( sched_query.line_filter = <<>>
         \/ Contains(ShortName(QueryRows[i].trip_id), sched_query.line_filter) )

\* The departure a row is returned as.
Entry(i) ==
    [departure_time |-> QueryRows[i].departure_time,
     line_number |-> ShortName(QueryRows[i].trip_id),
     trip_id |-> QueryRows[i].trip_id]

TimesReturned(entry) == Cardinality({k \in DOMAIN departures : departures[k] = entry})

TimesQualifying(entry) ==
    Cardinality({i \in DOMAIN QueryRows : Qualifies(i) /\ Entry(i) = entry})

Smaller(m, n) == IF m < n THEN m ELSE n

----------------------------------------------------------------------------
(* C9: get_schedule returns exactly the stop's departures inside the          *)
(* inclusive time range, whose service is active on the date and whose route  *)
(* short name contains the line filter when one is given, sorted ascending by *)
(* departure time and cut to the first `limit` entries of that order.         *)

C9_Schedule ==
    sched_query.made =>
        /\ \A k \in 1..(Len(departures) - 1) :
              LexLeq(departures[k].departure_time, departures[k + 1].departure_time)
        /\ Len(departures)
              = Smaller(sched_query.limit,
                        Cardinality({i \in DOMAIN QueryRows : Qualifies(i)}))
        /\ \A k \in DOMAIN departures :
              TimesReturned(departures[k]) <= TimesQualifying(departures[k])
        /\ \A i \in DOMAIN QueryRows :
              Qualifies(i) /\ TimesReturned(Entry(i)) < TimesQualifying(Entry(i))
                  => LexLeq(departures[Len(departures)].departure_time,
                            Entry(i).departure_time)

\* The file lists 09:00:00 before 08:00:00 on line 10 and a departure of line
\* 2; with the filter "1" and limit 1 the 08:00:00 departure is returned.
C9_Witness ==
    /\ sched_query.made
    /\ sched_query.limit = 1
    /\ sched_query.line_filter = <<1>>
    /\ Len(QueryRows) = 3
    /\ QueryRows[1] = [trip_id |-> "t1", departure_time |-> <<0, 9>>]
    /\ QueryRows[2] = [trip_id |-> "t1", departure_time |-> <<0, 8>>]
    /\ QueryRows[3].trip_id = "t2"
    /\ TripRuns("t2", sched_query.target_date)
    /\ departures = <<[departure_time |-> <<0, 8>>, line_number |-> <<1, 0>>,
                       trip_id |-> "t1"]>>

----------------------------------------------------------------------------
(* C10: a service is active on a date iff the exception calendar holds an     *)
(* explicit "added" entry for that (service, date); no departure of a trip    *)
(* whose service is removed, has no entry for the date or for the service, or *)
(* of a trip without a service id, is returned for that date.                 *)

C10_ServiceActive ==
    /\ \A service_id \in {"", "sv1", "sv2"} : \A day \in TargetDates :
          is_service_active(sched_calendar_dates, service_id, day)
              <=> (service_id # "" /\ HasAddedEntry(service_id, DateString(day)))
    /\ sched_query.made =>
          /\ \A k \in DOMAIN departures :
                TripRuns(departures[k].trip_id, sched_query.target_date)
          /\ ( sched_query.start_time = <<0, 0>> /\ sched_query.end_time = <<2, 3>>
                   /\ sched_query.line_filter = <<>> )
                => Len(departures)
                     = Smaller(sched_query.limit,
                               Cardinality({i \in DOMAIN QueryRows :
                                   TripRuns(QueryRows[i].trip_id,
                                            sched_query.target_date)}))

\* sv1 is removed on the date, sv2 is added, t3 has no service id: of the
\* three departures only that of t2 is returned.
C10_Witness ==
    /\ sched_query.made
    /\ sched_query.target_date = 1
    /\ sched_query.start_time = <<0, 0>>
    /\ sched_query.end_time = <<2, 3>>
    /\ sched_query.line_filter = <<>>
    /\ sched_query.limit = 2
    /\ "sv1" \in DOMAIN sched_calendar_dates
    /\ "20240101" \in DOMAIN sched_calendar_dates["sv1"]
    /\ sched_calendar_dates["sv1"]["20240101"] = "2"
    /\ HasAddedEntry("sv2", "20240101")
    /\ {QueryRows[i].trip_id : i \in DOMAIN QueryRows} = {"t1", "t2", "t3"}
    /\ Len(departures) = 1
    /\ departures[1].trip_id = "t2"

----------------------------------------------------------------------------
(* C11: when the archive is missing or malformed, a failure part-way through *)
(* one of its tables included, loading ends without raising (the index is    *)
(* marked loaded) and every later get_trips_between_stops and get_schedule   *)
(* query returns an empty result.                                             *)

C11_FailedLoadIsEmpty ==
    /\ cache_fault # "none" => cache_loaded
    /\ sched_fault # "none" => sched_loaded
    /\ cache_fault # "none" /\ trips_query.made => matching_trips = {}
    /\ sched_fault # "none" /\ sched_query.made => departures = <<>>

----------------------------------------------------------------------------
(* Delay of a departure: vocabulary of the claims *)

\* round(seconds / 60), halves to the even minute as Python's round does.
RoundedMinutes(seconds) ==
    LET q == seconds \div 60
        r == seconds % 60
    IN  IF r < 30 THEN q
        ELSE IF r > 30 THEN q + 1
        ELSE IF q % 2 = 0 THEN q ELSE q + 1

\* The expected instant the adapter that ran compares with the target.
DelayExpected ==
    IF delay_result.by = "ns" /\ delay_input.expected.form = "missing"
    THEN delay_input.target
    ELSE delay_input.expected

----------------------------------------------------------------------------
(* C13: for parseable expected and target instants the delay equals          *)
(* round((expected - target) in minutes), for positive, negative and         *)
(* fractional differences alike; it is 0 when either instant is absent.      *)

C13_DelayIsRounded ==
    delay_result.by # "none" =>
        /\ ( delay_input.expected.form = "missing" \/ delay_input.target.form = "missing" )
              => delay_result.minutes = 0
        /\ ( DelayExpected.form = "iso" /\ delay_input.target.form = "iso" )
              => delay_result.minutes
                   = RoundedMinutes(DelayExpected.second - delay_input.target.second)

----------------------------------------------------------------------------
(* Journeys: vocabulary of the claims *)

Called == api_calls > 0

ByTrainAdapter ==
    api_request.transport_type = "train" \/ (~api_request.origin_isdigit /\ api_request.ns_api_key)

Upcoming == journey.upcoming_departures

\* The canonical default Journey, field by field.
IsCanonicalDefault(j) ==
    /\ j.departure_time = MissingInstant /\ j.arrival_time = MissingInstant
    /\ j.delay = 0 /\ j.delay_reason = ""
    /\ j.upcoming_departures = <<>> /\ j.alternatives = <<>> /\ j.coordinates = <<>>
    /\ ~j.missed_connection /\ ~j.reroute_recommended

\* A passage of the real-time feed that the filters let through.
Survives(p) ==
    /\ p.is_dict
    /\ p.TripStopStatus \notin {"PASSED", "CANCELLED"}
    /\ api_request.line_filter = <<>> \/ Contains(p.LinePublicNumber, api_request.line_filter)

Survivors == {i \in DOMAIN api_response.payload : Survives(api_response.payload[i])}

----------------------------------------------------------------------------
(* C12: in every Journey get_journey returns, by either adapter,             *)
(* upcoming_departures is sorted non-decreasing by expected_departure and    *)
(* holds at most the requested number of departures, and the primary         *)
(* departure is its first element.                                           *)

C12_SortedAndBounded ==
    Called /\ api_outcome = "returned" =>
        /\ \A i, k \in DOMAIN Upcoming :
               ( /\ i < k
                 /\ Upcoming[i].expected_departure.form = "iso"
                 /\ Upcoming[k].expected_departure.form = "iso" )
               => Upcoming[i].expected_departure.second
                    <= Upcoming[k].expected_departure.second
        /\ Len(Upcoming) <= api_request.num_departures
        /\ Upcoming # <<>> =>
               /\ journey.departure_time = Upcoming[1].expected_departure
               /\ journey.delay = Upcoming[1].delay

----------------------------------------------------------------------------
(* C14: when the provider answers and no departure survives filtering,       *)
(* get_journey returns the canonical default Journey (times null, delay 0,   *)
(* empty lists, both flags false); it does not raise.                        *)

C14_EmptyGivesDefault ==
    ( /\ Called /\ ~ByTrainAdapter
      /\ api_response.kind = "ok"
      /\ Survivors = {} )
    => api_outcome = "returned" /\ IsCanonicalDefault(journey)

\* Two passages arrived and both had passed the stop.
C14_Witness ==
    /\ Called /\ ~ByTrainAdapter
    /\ api_response.kind = "ok"
    /\ Len(api_response.payload) = 2
    /\ Survivors = {}
    /\ api_outcome = "returned" /\ IsCanonicalDefault(journey)

----------------------------------------------------------------------------
(* C15: the Journey built from N >= 1 departures has the first departure as  *)
(* primary with that departure's delay, and its alternatives are the         *)
(* departures ranked 2..N, at most 4, each with its own delay.               *)

C15_Alternatives ==
    Called /\ api_outcome = "returned" /\ Upcoming # <<>> =>
        /\ journey.delay = Upcoming[1].delay
        /\ Len(journey.alternatives) = Smaller(4, Len(Upcoming) - 1)
        /\ \A k \in DOMAIN journey.alternatives :
               journey.alternatives[k].delay = Upcoming[k + 1].delay

----------------------------------------------------------------------------
(* C16: reroute_recommended is true when missed_connection is true, or when  *)
(* the primary's delay exceeds 10 minutes and some alternative (a departure  *)
(* ranked 2..5) arrives at least 5 minutes before the primary; it is false   *)
(* otherwise, also when an arrival instant cannot be parsed.                 *)

EarlierAlternative ==
    \E k \in 2..Smaller(5, Len(Upcoming)) :
        /\ journey.arrival_time.form = "iso"
        /\ Upcoming[k].expected_arrival.form = "iso"
        /\ Upcoming[k].expected_arrival.second + 300 <= journey.arrival_time.second

C16_RerouteRule ==
    Called /\ api_outcome = "returned" =>
        ( journey.reroute_recommended
            <=> ( journey.missed_connection \/ (journey.delay > 10 /\ EarlierAlternative) ) )

----------------------------------------------------------------------------
(* C17: two builds from the same request and the same provider answer give   *)
(* identical Journeys, whatever the wall clock at each build.                *)

C17_SameJourney ==
    api_calls = 2 => journey = prev_journey

----------------------------------------------------------------------------
(* C19: a transport failure (non-200 status, timeout, connection error), a   *)
(* payload that cannot be parsed, and a missing train credential each make   *)
(* the adapter return the canonical empty result; no call raises.            *)

\* The payload makes the adapter's processing raise.
PayloadFailsParsing ==
    \/ api_response.kind \in {"bad_json", "not_object"}
    \/ /\ api_response.kind = "ok" /\ ~ByTrainAdapter
       /\ Cardinality(Survivors) >= 2
       /\ \E i \in Survivors : api_response.payload[i].ExpectedDepartureTime.form = "missing"
    \/ /\ api_response.kind = "ok" /\ ByTrainAdapter
       /\ \E i \in DOMAIN api_response.payload :
              i <= api_request.num_departures /\ ~api_response.payload[i].is_dict

TransportFails == api_response.kind \in {"status_500", "timeout", "connection_error"}

NoCredential == ByTrainAdapter /\ ~api_request.ns_api_key

C19_FailureGivesEmpty ==
    Called =>
        /\ api_outcome = "returned"
        /\ (TransportFails \/ PayloadFailsParsing \/ NoCredential)
               => IsCanonicalDefault(journey)

\* The real-time feed answered with two passages, one without an expected
\* departure, and sorting them raised.
C19_Witness ==
    /\ Called /\ ~ByTrainAdapter
    /\ api_response.kind = "ok"
    /\ Cardinality(Survivors) = 2
    /\ PayloadFailsParsing
    /\ api_outcome = "returned" /\ IsCanonicalDefault(journey)

----------------------------------------------------------------------------
(* Poll cycle: vocabulary of the claims *)

PollEnded == poll_result \in {"returned", "UpdateFailed"}

ActiveRoutes == {i \in DOMAIN poll_routes : poll_routes[i].active}

\* The routes whose own evaluation raises.
RaisingRoutes == {i \in ActiveRoutes : evaluate_route(poll_routes[i]).raised}

----------------------------------------------------------------------------
(* C18: in one poll cycle an exception raised while one route is evaluated   *)
(* does not keep the other active routes from being evaluated and their data *)
(* from being published, and the cycle is reported failed (UpdateFailed)     *)
(* only if every route failed.                                               *)

C18_RoutesIndependent ==
    PollEnded =>
        /\ \A i \in ActiveRoutes \ RaisingRoutes : i \in poll_published
        /\ poll_result = "UpdateFailed" => ActiveRoutes \subseteq RaisingRoutes

----------------------------------------------------------------------------
(* C20: when check_and_notify calls for the same route key overlap at the    *)
(* awaited channel dispatch, a kind is still fired by at most one of them    *)
(* within 10 minutes.                                                        *)

C20_OneFiringPerKind ==
    \A i, k \in DOMAIN ov_fired :
        ( /\ i < k
          /\ ov_fired[i].kind = ov_fired[k].kind
          /\ ov_fired[i].kind \in {"delay", "disruption", "reroute"} )
        => ov_fired[k].at - ov_fired[i].at >= 10

----------------------------------------------------------------------------
(* Filters of the real-time adapter: vocabulary of the claims *)

Payload == api_response.payload

\* The real-time adapter answered a call for which the feed delivered.
FeedAnswered == Called /\ ~ByTrainAdapter /\ api_response.kind = "ok"

\* str.lower() on the characters of the line names
LowerChar(c) == IF c = "N" THEN "n" ELSE c

Lower(text) == [i \in DOMAIN text |-> LowerChar(text[i])]

\* The tokens of a comma-separated filter, "" giving none.
RECURSIVE TokensFrom(_, _)
TokensFrom(text, token) ==
    IF text = <<>> THEN (IF token = <<>> THEN {} ELSE {token})
    ELSE IF Head(text) = ","
         THEN (IF token = <<>> THEN {} ELSE {token}) \cup TokensFrom(Tail(text), <<>>)
    ELSE TokensFrom(Tail(text), Append(token, Head(text)))

Tokens == TokensFrom(api_request.line_filter, <<>>)

NotPassedOrCancelled(p) == p.TripStopStatus \notin {"PASSED", "CANCELLED"}

\* The passage's journey number occurs in one of the supplied trip ids, or no
\* trip filter applies.
TripAccepted(p) ==
    \/ api_request.destination = ""
    \/ api_request.valid_trip_ids = {}
    \/ /\ p.JourneyNumber # <<>>
       /\ \E trip_id \in api_request.valid_trip_ids : Contains(trip_id, p.JourneyNumber)

\* The passage is an entry of the Journey's upcoming_departures.
Appears(p) ==
    \E k \in DOMAIN Upcoming :
        /\ Upcoming[k].line_number = p.LinePublicNumber
        /\ Upcoming[k].journey_number = p.JourneyNumber
        /\ Upcoming[k].status = p.TripStopStatus
        /\ Upcoming[k].expected_departure = p.ExpectedDepartureTime

----------------------------------------------------------------------------
(* C21: the line filter is a case-insensitive substring match: a passage the *)
(* other filters let through is kept exactly when the lower-cased filter     *)
(* occurs in the lower-cased line number.                                    *)

C21_LineFilterIgnoresCase ==
    FeedAnswered =>
        \A i \in DOMAIN Payload :
            NotPassedOrCancelled(Payload[i]) /\ TripAccepted(Payload[i]) =>
                ( Appears(Payload[i])
                    <=> Contains(Lower(Payload[i].LinePublicNumber),
                                 Lower(api_request.line_filter)) )

----------------------------------------------------------------------------
(* C22: a route's line_filter is a set of line tokens: a departure passes    *)
(* exactly when the set is empty or its line matches one of the tokens, so   *)
(* a route stored with two selected lines accepts a departure of either.     *)

C22_LineFilterIsTokenSet ==
    FeedAnswered =>
        \A i \in DOMAIN Payload :
            NotPassedOrCancelled(Payload[i]) /\ TripAccepted(Payload[i]) =>
                ( Appears(Payload[i])
                    <=> ( Tokens = {}
                          \/ \E token \in Tokens :
                                Contains(Payload[i].LinePublicNumber, token) ) )

----------------------------------------------------------------------------
(* C23: no passage whose status is passed or cancelled is the primary        *)
(* departure or an entry of upcoming_departures, whatever the line filter    *)
(* and the trip filter are.                                                  *)

C23_NoPassedOrCancelled ==
    Called /\ ~ByTrainAdapter =>
        /\ \A k \in DOMAIN Upcoming : Upcoming[k].status \notin {"PASSED", "CANCELLED"}
        /\ \A i \in DOMAIN Payload :
               ~NotPassedOrCancelled(Payload[i]) => ~Appears(Payload[i])

\* A cancelled passage and a running one arrived; only the running one is in
\* the Journey.
C23_Witness ==
    /\ FeedAnswered
    /\ Len(Payload) = 2
    /\ Payload[1].TripStopStatus = "CANCELLED"
    /\ Payload[2].TripStopStatus = ""
    /\ Len(Upcoming) = 1
    /\ Upcoming[1].status = ""

----------------------------------------------------------------------------
(* C28: with a destination and a non-empty set of valid trip ids, only       *)
(* passages whose journey number occurs in one of the trip ids are in the    *)
(* result: none without a journey number, none matching no trip id.          *)

C28_TripFilter ==
    ( /\ Called /\ ~ByTrainAdapter
      /\ api_request.destination # ""
      /\ api_request.valid_trip_ids # {} )
    => \A k \in DOMAIN Upcoming :
           /\ Upcoming[k].journey_number # <<>>
           /\ \E trip_id \in api_request.valid_trip_ids :
                  Contains(trip_id, Upcoming[k].journey_number)

\* Of a passage of journey 12, one of journey 34 and nothing else, with trip
\* 7|12|0 valid, the Journey holds journey 12 alone.
C28_Witness ==
    /\ FeedAnswered
    /\ api_request.destination # ""
    /\ api_request.valid_trip_ids # {}
    /\ Len(Payload) = 2
    /\ Payload[1].JourneyNumber = <<"1", "2">>
    /\ Payload[2].JourneyNumber = <<"3", "4">>
    /\ NotPassedOrCancelled(Payload[1]) /\ NotPassedOrCancelled(Payload[2])
    /\ api_request.line_filter = <<>>
    /\ Len(Upcoming) = 1
    /\ Upcoming[1].journey_number = <<"1", "2">>

----------------------------------------------------------------------------
(* Connection analysis, one pair at a time: vocabulary of the claims *)

\* The analyzer is about to handle the pair (conn_i, conn_i + 1).
AtPair == conn_pc = "loop" /\ conn_i <= Len(leg_data) - 1

\* Both timestamps of the pair are present and parse.
PairHasTransfer ==
    /\ leg_data[conn_i].arrival_time.form = "iso"
    /\ leg_data[conn_i + 1].departure_time.form = "iso"

\* The transfer of the pair, in seconds.
TransferSeconds ==
    leg_data[conn_i + 1].departure_time.second - leg_data[conn_i].arrival_time.second

\* 0 <= transfer < min_transfer_minutes
TightPair ==
    /\ PairHasTransfer
    /\ 0 <= TransferSeconds
    /\ TransferSeconds < 60 * min_transfer_time

\* Leg i is delayed and what the delay leaves of the transfer is below the
\* minimum.
DelayRiskPair ==
    /\ PairHasTransfer
    /\ leg_data[conn_i].delay > 0
    /\ TransferSeconds - 60 * leg_data[conn_i].delay < 60 * min_transfer_time

\* The warnings the step appends to the report.
NewWarnings == SubSeq(result'.warnings, Len(result.warnings) + 1, Len(result'.warnings))

----------------------------------------------------------------------------
(* C25: for a pair with 0 <= transfer < min_transfer_minutes the analyzer    *)
(* makes the status tight only from ok (a warning or missed status is never  *)
(* replaced by tight), records a tight-connection warning, and stores the    *)
(* transfer in whole minutes as transfer_time_to_next on leg i; an ok status *)
(* with no delay on leg i becomes tight.                                     *)

C25_TightPair ==
    [][ AtPair /\ TightPair /\ conn_i' = conn_i + 1 =>
          /\ result.connection_status \in {"warning", "missed"}
                => result'.connection_status # "tight"
          /\ result.connection_status = "ok" /\ leg_data[conn_i].delay <= 0
                => result'.connection_status = "tight"
          /\ NewWarnings # <<>> /\ Head(NewWarnings) = "tight"
          /\ leg_data[conn_i].delay <= 0 => NewWarnings = <<"tight">>
          /\ leg_data'[conn_i].transfer_time_to_next = TransferSeconds \div 60 ]_vars

\* Leg 1 arrives 08:10:00Z, leg 2 departs 08:12:00Z, the minimum is 5: the
\* report is tight with one warning and a transfer of 2 minutes.
C25_Witness ==
    /\ conn_pc = "done"
    /\ Len(leg_data) = 2
    /\ leg_data[1].arrival_time = IsoInstant(600)
    /\ leg_data[2].departure_time = IsoInstant(720)
    /\ leg_data[1].delay = 0
    /\ min_transfer_time = 5
    /\ result.connection_status = "tight"
    /\ result.warnings = <<"tight">>
    /\ leg_data[1].transfer_time_to_next = 2

----------------------------------------------------------------------------
(* C26: each adjacent leg pair adds zero or one warning to the report, so    *)
(* after analyzing n legs the warnings list has at most n - 1 entries.       *)

C26_OneWarningPerPair ==
    conn_pc = "done" => Len(result.warnings) <= Len(leg_data) - 1

----------------------------------------------------------------------------
(* C27: a pair whose leg i has a positive delay and whose transfer minus the *)
(* delay is below the minimum sets the status to warning and adds the        *)
(* delay-risk warning; a pair whose leg i has delay <= 0, or whose transfer  *)
(* minus delay reaches the minimum, never causes the status warning.         *)

C27_DelayRisk ==
    [][ AtPair /\ conn_i' = conn_i + 1 =>
          /\ DelayRiskPair =>
                /\ result'.connection_status = "warning"
                /\ NewWarnings # <<>>
                /\ NewWarnings[Len(NewWarnings)] = "delay"
          /\ ~DelayRiskPair =>
                /\ result'.connection_status = "warning"
                      => result.connection_status = "warning"
                /\ \A k \in DOMAIN NewWarnings : NewWarnings[k] # "delay" ]_vars

\* Leg 1, 3 minutes late, arrives 08:10:00Z and leg 2 departs 08:15:00Z: the
\* transfer of 5 minutes meets the minimum, the 2 minutes the delay leaves do
\* not, and the report is a warning with the delay-risk message alone.
C27_Witness ==
    /\ conn_pc = "done"
    /\ Len(leg_data) = 2
    /\ leg_data[1].arrival_time = IsoInstant(600)
    /\ leg_data[2].departure_time = IsoInstant(900)
    /\ leg_data[1].delay = 3
    /\ min_transfer_time = 5
    /\ result.connection_status = "warning"
    /\ result.warnings = <<"delay">>

----------------------------------------------------------------------------
(* C29: the cool-down ends: when a kind fired for a route at instant t and   *)
(* its firing condition holds at an in-window call at t' with t' - t >= 10   *)
(* minutes, the kind fires again at t' and its last-fired instant becomes    *)
(* t'; a call exactly 10 minutes after t is not suppressed.                  *)

C29_CoolDownEnds ==
    InWindow =>
        \A kind \in Kinds :
            ( /\ kind_condition(kind, call.route_config, call.journey_data)
              /\ HasEntry(pre_fired, CallKey, kind)
              /\ call.now - pre_fired[CallKey][kind] >= 10 )
            => /\ FiredKind(kind)
               /\ LastInstant(notified_routes, CallKey, kind) = call.now
               /\ LastInstant(last_fired, CallKey, kind) = call.now

\* The delay event of the route was fired at minute 0 and is fired again by
\* the call at minute 10.
C29_Witness ==
    /\ InWindow
    /\ call.now = 10
    /\ delay_condition(call.route_config, call.journey_data)
    /\ HasEntry(pre_fired, CallKey, "delay")
    /\ pre_fired[CallKey]["delay"] = 0
    /\ Fired(EVENT_DELAY_DETECTED)
    /\ notified_routes[CallKey]["delay"] = 10

----------------------------------------------------------------------------
(* Channel dispatch: vocabulary of the claims *)

\* The events the step puts on the bus.
NewFired == SubSeq(ov_fired', Len(ov_fired) + 1, Len(ov_fired'))

\* The call of this task takes the step.
Steps(task) == ov_task'[task] # ov_task[task]

\* The kind is inside its cool-down for the key when the step begins.
CoolingDown(key, kind) ==
    /\ HasEntry(ov_notified, key, kind)
    /\ ov_clock - ov_notified[key][kind] < 10

\* The step emits the kind's event and sets its last-fired instant.
EmitsAndMarks(task, key, kind) ==
    /\ \E i \in DOMAIN NewFired :
          /\ NewFired[i].kind = kind
          /\ NewFired[i].task = task
          /\ NewFired[i].at = ov_clock
    /\ HasEntry(ov_notified', key, kind)
    /\ ov_notified'[key][kind] = ov_clock

\* After the step the call is dispatching the kind's message.
Dispatching(task, kind) ==
    ov_task'[task].pc = "sending" /\ KindOrder[ov_task'[task].k] = kind

----------------------------------------------------------------------------
(* C30: a kind's cool-down starts whenever its firing condition passes,      *)
(* delivered or not: for a route without notify_services, and when the       *)
(* channel dispatch raises, the bus event is still emitted and the kind's    *)
(* instant is still set; a call inside the following 10 minutes neither      *)
(* fires the kind nor dispatches its message again.                          *)

C30_CoolDownWithoutDelivery ==
    [][ \A task \in Tasks : Steps(task) =>
          LET route_config == ov_task'[task].route_config
              journey_data == ov_task'[task].journey_data
              key == route_key(route_config)
          IN  /\ ov_task[task].pc = "idle" /\ route_config.notify_services = <<>> =>
                    \A kind \in Kinds :
                        kind_condition(kind, route_config, journey_data)
                            /\ ~CoolingDown(key, kind)
                        => EmitsAndMarks(task, key, kind)
              /\ ov_task[task].pc = "sending" =>
                    EmitsAndMarks(task, key, KindOrder[ov_task[task].k])
              /\ \A kind \in Kinds :
                    CoolingDown(key, kind) =>
                        /\ \A i \in DOMAIN NewFired : NewFired[i].kind # kind
                        /\ ~Dispatching(task, kind) ]_vars

\* The dispatch of the delay message of call 1 raised at minute 0; the event
\* was fired and the instant set.  Call 2, 2 minutes later with the delay
\* still on, fires the reminder alone and dispatches nothing.
C30_Witness ==
    /\ Len(ov_fired) = 3
    /\ ov_fired[2].kind = "delay" /\ ov_fired[2].dispatch = "raises"
    /\ ov_fired[2].at = 0
    /\ ov_fired[3].kind = "departure_reminder" /\ ov_fired[3].at = 2
    /\ ov_fired[3].task # ov_fired[2].task
    /\ ov_task[ov_fired[3].task].pc = "done"
    /\ ov_task[ov_fired[3].task].journey_data.delay = 8
    /\ ov_notified["A_B"]["delay"] = 0
    /\ ov_clock = 2

----------------------------------------------------------------------------
(* Route configuration: vocabulary of the claims *)

\* A multi-leg route has at least 2 legs and a reverse route a return time.
ValidRoute(route) ==
    /\ route.has_legs => Len(route.legs) >= 2
    /\ route.reverse => route.return_time \notin {None, ""}

AllValid(routes) == \A i \in DOMAIN routes : ValidRoute(routes[i])

\* The step ends with the form's input or the multi-leg route refused.
Rejects == cfg_errors' \in {"return_time_required", "need_multiple_legs"}

----------------------------------------------------------------------------
(* C24: after any sequence of configuration steps neither the route list of  *)
(* the open flow nor the one stored in the config entry holds a multi-leg    *)
(* route with fewer than 2 legs or a reverse route without a return time,    *)
(* and a step that rejects a route leaves both lists exactly as they were.   *)

C24_InvalidRoutesBlocked ==
    /\ [](AllValid(cfg_routes) /\ AllValid(cfg_entry.routes))
    /\ [][ Rejects => cfg_routes' = cfg_routes /\ cfg_entry' = cfg_entry ]_vars

\* A flow that already holds a multi-leg route is asked to finish a second
\* one with a single leg: the flow aborts and the list still holds the first
\* route alone.
C24_Witness ==
    /\ cfg_step = "abort"
    /\ cfg_errors = "need_multiple_legs"
    /\ Len(cfg_current_legs) = 1
    /\ Len(cfg_routes) = 1
    /\ cfg_routes[1].has_legs
    /\ Len(cfg_routes[1].legs) = 2
    /\ ~cfg_entry.exists

====
